---- MODULE Spec2Model ----
(***************************************************************************)
(* LiveTranscribeService (src/src/transcribe/liveTranscribeService.ts)     *)
(* together with the microphone capture it starts                          *)
(* (src/src/audio/micPcm16Capture.ts), as a state machine.  One action per *)
(* public call (start, stop, toggle), per completion of an awaited promise *)
(* (connect, getUserMedia, audioContext.close, addModule) and per inbound  *)
(* client event.  JavaScript runs each of these to its next await without  *)
(* interleaving, so each is one atomic step.  SpecSession and SpecEditor    *)
(* start from an established session; SpecCapture and SpecPcm look at one  *)
(* capture: its worklet processor, its port and its handle's stop().       *)
(***************************************************************************)
EXTENDS Integers, Sequences, FiniteSets, TLC

(* ------------------------------ bounds --------------------------------- *)
\* number of start() calls that get past the running and credential guards
MaxStarts == 2
\* number of inbound client events delivered to the listener in one run
MaxEvents == 1
\* number of documents that can be the active editor
NDocs == 1
\* number of events delivered to the listener of one running session
MaxSessionEvents == 3
\* number of documents open while a session inserts into the active one
MaxEditorDocs == 2
\* number of events delivered while the documents are being edited
MaxEditorEvents == 3
\* largest column the user places the cursor at
MaxCursorCh == 2
\* largest frame size (chunkSize) the capture processor is created with
MaxChunkSize == 2
\* number of samples the audio thread gives to process() in one run
MaxSamples == 3
\* largest number of samples in one process() call
MaxInputLen == 2
\* number of calls of the capture handle's stop()
MaxStopCalls == 2
\* largest number of samples given to encodeWavFromMono
MaxWavSamples == 2
\* number of frames each capture posts
MaxFrames == 2
\* number of updateVoiceSummaryBlockInFile calls on the note
MaxUpdateCalls == 2
\* number of voice summary blocks a note holds
MaxBlocks == 2

Sessions == 1..MaxStarts
Docs == 1..NDocs
EditorDocs == 1..MaxEditorDocs

(* ------------------------------ strings -------------------------------- *)
\* A string is a sequence of one-character strings.  Fixed message texts of
\* the program are kept as one-element sequences holding the whole message.
IsWs(ch) == ch \in {" ", "\n"}

RECURSIVE TrimStart(_)
TrimStart(s) == IF s # <<>> /\ IsWs(Head(s)) THEN TrimStart(Tail(s)) ELSE s

RECURSIVE TrimEnd(_)
TrimEnd(s) ==
    IF s # <<>> /\ IsWs(s[Len(s)]) THEN TrimEnd(SubSeq(s, 1, Len(s) - 1)) ELSE s

\* String.prototype.trim
Trim(s) == TrimEnd(TrimStart(s))

\* text.split("\n")
RECURSIVE SplitLines(_)
SplitLines(s) ==
    IF \A i \in 1..Len(s) : s[i] # "\n"
    THEN <<s>>
    ELSE LET i == CHOOSE k \in 1..Len(s) :
                      s[k] = "\n" /\ \A j \in 1..(k - 1) : s[j] # "\n"
         IN <<SubSeq(s, 1, i - 1)>> \o SplitLines(SubSeq(s, i + 1, Len(s)))

StrStarting == <<"Starting transcription...">>
StrFailedConnect == <<"Failed to connect.">>
StrListening == <<"Listening...">>
StrStopping == <<"Stopping...">>
StrTranscriptionError == <<"Transcription error.">>
NoticeMissingKey == <<"Missing AssemblyAI API key. Set it in plugin settings.">>
NoticeConnectFailed == <<"AssemblyAI connect failed">>
NoticeMicFailed == <<"Microphone failed">>
NoticeStarted == <<"Live transcription started.">>
NoticeStopped == <<"Live transcription stopped.">>
NoticeTranscriptionError == <<"Transcription error">>

\* values the credential accessor can return
Keys == {<<>>, <<" ">>, <<" ", "k", " ">>}

\* texts a transcript_update event can carry
Texts == {<<" ">>, <<" ", "a", "\n", "b", " ">>}

\* texts the final events can carry while the documents are being edited
EditorTexts == {<<" ">>, <<"a">>, <<" ", "a", "\n", "b", " ">>}

\* texts the transcript_update events of a running session can carry
SessionTexts ==
    { <<" ">>, <<" ", "a", " ">>, <<"h", "e", "l">>,
      <<"h", "e", "l", "l", "o">>, <<"h", "e", "l", "l", "o", ".">> }

\* String.prototype.toLowerCase on the words error messages are made of
ToLowerCase(w) ==
    CASE w = "Not authorized" -> "not authorized"
      [] w = "NOT AUTHORIZED" -> "not authorized"
      [] OTHER -> w

\* messages an error event can carry, as sequences of words
ErrorMessages ==
    { <<"Not authorized", ": invalid key">>,
      <<"temporary network blip">> }

\* ev.message.toLowerCase().includes("not authorized")
IsNotAuthorized(msg) ==
    \E i \in 1..Len(msg) : ToLowerCase(msg[i]) = "not authorized"

(* ------------------------------- state --------------------------------- *)
VARIABLES
    running,     \* LiveTranscribeService.running
    aai,         \* LiveTranscribeService.aai: a client id, 0 for null
    unsubAai,    \* LiveTranscribeService.unsubAai: the client it unsubscribes, 0 for null
    mic,         \* LiveTranscribeService.mic: a capture handle id, 0 for null
    finalized,   \* LiveTranscribeService.finalized
    current,     \* LiveTranscribeService.current
    pc,          \* where each start() invocation is suspended
    client,      \* state of each AssemblyAiRealtimeClient
    subscribed,  \* clients whose onEvent listener is still subscribed
    terminated,  \* clients on which terminate() has been called
    micStage,    \* progress of each startMicPcm16Capture call / its handle
    streamOpen,  \* captures whose MediaStream tracks are live
    ctxOpen,     \* captures whose AudioContext is not closed
    activeDoc,   \* the active MarkdownView's editor, 0 when there is none
    docs,        \* each document: its lines and its cursor
    lastRunning, \* last value given to onRunningChange ("none" before any)
    status,      \* last text given to onStatusText
    out,         \* calls the last step made on its collaborators, in order
    threw,       \* the last step let an exception escape
    lastOp,      \* the call or completion the last step handled
    nStarts,     \* start() calls that got past the guards so far
    nEvents,     \* events delivered so far
    log,         \* history: the events handled since the buffer was last
                 \* reset, each with the status texts it delivered
    afterStop,   \* history: a stop() call made while running has returned
                 \* and start() has not been called since
    chunkSize,   \* TuonPcm16Processor.chunkSize
    buf,         \* TuonPcm16Processor._buf
    pos,         \* TuonPcm16Processor._pos
    heap,        \* the Int16Array buffers allocated so far, by identity
    port,        \* the buffers posted on the port and not yet dispatched
    onmessage,   \* workletNode.port.onmessage is the handler (not null)
    edges,       \* the connections of the audio graph
    tracksLive,  \* the tracks of the stream are not stopped
    ctxState,    \* audioContext.state
    rafId,       \* rafId is not null
    stops,       \* the promise of each call of the handle's stop()
    fed,         \* history: the samples given to process() so far
    delivered,   \* history: the buffers given to onPcm16Chunk, in order
    capOut,      \* calls the last capture step made, in order
    capOp,       \* the capture step taken last
    wav,         \* the last encodeWavFromMono call: its samples and its data
    emitted,     \* the number of frames each capture has posted
    ports,       \* the frames of each capture posted and not yet dispatched
    sent,        \* history: the sendPcm16Chunk calls made, in order
    file,        \* the content of the note in the vault
    calls        \* each updateVoiceSummaryBlockInFile call: where it is
                 \* suspended and its local variables

\* the controller, its client, its documents and the history of its steps
service == <<running, aai, unsubAai, mic, finalized, current, pc, client,
             subscribed, terminated, micStage, streamOpen, ctxOpen, activeDoc,
             docs, lastRunning, status, out, threw, lastOp, nStarts, nEvents,
             log, afterStop>>

\* one microphone capture: its processor, its port, its graph and its handle
capture == <<chunkSize, buf, pos, heap, port, onmessage, edges, tracksLive,
             ctxState, rafId, stops, fed, delivered, capOut, capOp, wav>>

\* the frames of every capture on their way to the client
frames == <<emitted, ports, sent>>

\* the note and the calls that update its voice summary blocks
storage == <<file, calls>>

vars == <<service, capture, frames, storage>>

\* the fields of the controller object
ctl == <<running, aai, unsubAai, mic, finalized, current>>

\* The whole state as one record, threaded through the statements of a handler.
Cur ==
    [running |-> running, aai |-> aai, unsubAai |-> unsubAai, mic |-> mic,
     finalized |-> finalized, current |-> current, pc |-> pc,
     client |-> client, subscribed |-> subscribed, terminated |-> terminated,
     micStage |-> micStage, streamOpen |-> streamOpen, ctxOpen |-> ctxOpen,
     activeDoc |-> activeDoc, docs |-> docs, lastRunning |-> lastRunning,
     status |-> status, out |-> <<>>, threw |-> FALSE, nStarts |-> nStarts]

\* the state a handler leaves
Commit(S) ==
    /\ running' = S.running
    /\ aai' = S.aai
    /\ unsubAai' = S.unsubAai
    /\ mic' = S.mic
    /\ finalized' = S.finalized
    /\ current' = S.current
    /\ pc' = S.pc
    /\ client' = S.client
    /\ subscribed' = S.subscribed
    /\ terminated' = S.terminated
    /\ micStage' = S.micStage
    /\ streamOpen' = S.streamOpen
    /\ ctxOpen' = S.ctxOpen
    /\ activeDoc' = S.activeDoc
    /\ docs' = S.docs
    /\ lastRunning' = S.lastRunning
    /\ status' = S.status
    /\ out' = S.out
    /\ threw' = S.threw
    /\ nStarts' = S.nStarts

\* one call made on a collaborator: what, on which client or capture, with what
Call(k, c, v) == [k |-> k, c |-> c, v |-> v]

Emit(S, e) == [S EXCEPT !.out = Append(@, e)]

\* this.onStatusText?.(text)
OnStatusText(S, t) == [Emit(S, Call("onStatusText", 0, t)) EXCEPT !.status = t]

\* this.onRunningChange?.(running)
OnRunningChange(S, b) ==
    [Emit(S, Call("onRunningChange", 0, <<IF b THEN "true" ELSE "false">>))
        EXCEPT !.lastRunning = IF b THEN "true" ELSE "false"]

\* new Notice(message)
Notice(S, msg) == Emit(S, Call("Notice", 0, msg))

(* ------------------- AssemblyAiRealtimeClient (interface) -------------- *)
\* new AssemblyAiRealtimeClient(...): the client exists, in state Idle
ClientNew(S, c) ==
    [Emit(S, Call("new client", c, <<>>)) EXCEPT !.client[c] = "Idle"]

\* client.onEvent(listener): one subscription, undone by the function returned
ClientOnEvent(S, c) ==
    [Emit(S, Call("onEvent", c, <<>>)) EXCEPT !.subscribed = @ \cup {c}]

\* client.connect(): Idle -> Connecting, settles later
ClientConnect(S, c) ==
    [Emit(S, Call("connect", c, <<>>)) EXCEPT !.client[c] = "Connecting"]

\* the function onEvent returned: no further delivery, whether or not it throws
ClientUnsubscribe(S, c, throws) ==
    [Emit(S, Call("unsubscribe", c, IF throws THEN <<"throws">> ELSE <<>>))
        EXCEPT !.subscribed = @ \ {c}]

\* terminate() closing a client whatever its state, a failed one included
ClientTerminateFromAny(S, c, throws) ==
    [Emit(S, Call("terminate", c, IF throws THEN <<"throws">> ELSE <<>>))
        EXCEPT !.terminated = @ \cup {c},
               !.client[c] = "Terminated"]

\* client.terminate(): local release whether or not it throws; Failed stays Failed
ClientTerminate(S, c, throws) ==
    [Emit(S, Call("terminate", c, IF throws THEN <<"throws">> ELSE <<>>))
        EXCEPT !.terminated = @ \cup {c},
               !.client[c] = IF @ = "Failed" THEN "Failed" ELSE "Terminated"]

\* the connection of a connected client drops: the client fails, for good
ClientDrop(S, c) == [S EXCEPT !.client[c] = "Failed"]

\* client.sendPcm16Chunk(chunk): fire-and-forget
ClientSendPcm16Chunk(S, c) == Emit(S, Call("sendPcm16Chunk", c, <<>>))

(* --------------------------- MicCaptureHandle -------------------------- *)
\* handle.stop(), up to its await: the port is silenced, the graph is
\* disconnected, the tracks are stopped and the context is closed
MicStop(S, m) ==
    [Emit(S, Call("mic.stop", m, <<>>))
        EXCEPT !.micStage[m] = "stopped",
               !.streamOpen = @ \ {m},
               !.ctxOpen = @ \ {m}]

(* ------------------------- LiveTranscribeService ----------------------- *)
\* cleanup() with its try/catch blocks removed: a throw ends it
cleanupUnguarded(S, unsubThrows, termThrows) ==
    LET S1 == IF S.unsubAai # 0
              THEN ClientUnsubscribe(S, S.unsubAai, unsubThrows)
              ELSE S
        S2 == [S1 EXCEPT !.unsubAai = 0]
        S3 == IF S2.aai # 0 THEN ClientTerminate(S2, S2.aai, termThrows) ELSE S2
        S4 == [S3 EXCEPT !.aai = 0]
        S5 == IF S4.mic # 0 THEN MicStop(S4, S4.mic) ELSE S4
        S6 == [S5 EXCEPT !.mic = 0]
    IN IF S.unsubAai # 0 /\ unsubThrows THEN [S1 EXCEPT !.threw = TRUE]
       ELSE IF S2.aai # 0 /\ termThrows THEN [S3 EXCEPT !.threw = TRUE]
       ELSE OnStatusText(S6, <<>>)

\* cleanup() clearing its fields without calling unsubAai or terminate()
cleanupKeepsClient(S, unsubThrows, termThrows) ==
    LET S4 == [S EXCEPT !.unsubAai = 0, !.aai = 0]
        S5 == IF S4.mic # 0 THEN MicStop(S4, S4.mic) ELSE S4
        S6 == [S5 EXCEPT !.mic = 0]
    IN OnStatusText(S6, <<>>)

\* private cleanup()
cleanup(S, unsubThrows, termThrows) ==
    LET S1 == IF S.unsubAai # 0
              THEN ClientUnsubscribe(S, S.unsubAai, unsubThrows)
              ELSE S
        S2 == [S1 EXCEPT !.unsubAai = 0]
        S3 == IF S2.aai # 0 THEN ClientTerminate(S2, S2.aai, termThrows) ELSE S2
        S4 == [S3 EXCEPT !.aai = 0]
        S5 == IF S4.mic # 0 THEN MicStop(S4, S4.mic) ELSE S4
        S6 == [S5 EXCEPT !.mic = 0]
    IN OnStatusText(S6, <<>>)

\* stop() without its running guard
stopUnguarded(S, unsubThrows, termThrows) ==
    LET S1 == [S EXCEPT !.running = FALSE]
        S2 == OnRunningChange(S1, FALSE)
        S3 == OnStatusText(S2, StrStopping)
        S4 == cleanup(S3, unsubThrows, termThrows)
    IN Notice(S4, NoticeStopped)

\* stop()
stop(S, unsubThrows, termThrows) ==
    IF ~S.running THEN S
    ELSE LET S1 == [S EXCEPT !.running = FALSE]
             S2 == OnRunningChange(S1, FALSE)
             S3 == OnStatusText(S2, StrStopping)
             S4 == cleanup(S3, unsubThrows, termThrows)
         IN Notice(S4, NoticeStopped)

\* start(), lines 55-62 and the suspension at await this.aai.connect()
startSession(S) ==
    LET c == S.nStarts + 1
        S1 == [S EXCEPT !.finalized = <<>>, !.current = <<>>,
                        !.running = TRUE, !.nStarts = c]
        S2 == OnRunningChange(S1, TRUE)
        S3 == OnStatusText(S2, StrStarting)
        S4 == [ClientNew(S3, c) EXCEPT !.aai = c]
        S5 == [ClientOnEvent(S4, c) EXCEPT !.unsubAai = c]
        S6 == ClientConnect(S5, c)
    IN [S6 EXCEPT !.pc[c] = "awaitConnect"]

\* start() without its running guard
startNoRunningGuard(S, key) ==
    IF Trim(key) = <<>> THEN Notice(S, NoticeMissingKey)
    ELSE startSession(S)

\* start() without its credential check
startNoKeyCheck(S, key) ==
    IF S.running THEN S
    ELSE startSession(S)

\* start(), up to its first await
start(S, key) ==
    IF S.running THEN S
    ELSE IF Trim(key) = <<>> THEN Notice(S, NoticeMissingKey)
    ELSE startSession(S)

\* start(), lines 85-90: the catch around startMicPcm16Capture
captureFailed(S, c, unsubThrows, termThrows) ==
    LET S1 == Notice(S, NoticeMicFailed)
        S2 == stop(S1, unsubThrows, termThrows)
    IN [S2 EXCEPT !.pc[c] = "done", !.micStage[c] = "rejected"]

\* startMicPcm16Capture, lines 54-85: the environment checks, which throw,
\* and the call of getUserMedia, which is awaited
startMicPcm16Capture(S, c, envOk, unsubThrows, termThrows) ==
    LET S1 == Emit(S, Call("startMicPcm16Capture", c, <<>>))
    IN IF envOk
       THEN [S1 EXCEPT !.pc[c] = "awaitMic", !.micStage[c] = "getUserMedia"]
       ELSE captureFailed(S1, c, unsubThrows, termThrows)

\* the catch around connect() without its return: capture is started anyway
connectFailedNoReturn(S, c, unsubThrows, termThrows) ==
    LET S1 == OnStatusText(S, StrFailedConnect)
        S2 == [S1 EXCEPT !.running = FALSE]
        S3 == Notice(S2, NoticeConnectFailed)
        S4 == cleanup(S3, unsubThrows, termThrows)
    IN startMicPcm16Capture(S4, c, TRUE, unsubThrows, termThrows)

\* the catch around connect() without its cleanup() call
connectFailedNoCleanup(S, c, unsubThrows, termThrows) ==
    LET S1 == OnStatusText(S, StrFailedConnect)
        S2 == [S1 EXCEPT !.running = FALSE]
        S3 == Notice(S2, NoticeConnectFailed)
    IN [S3 EXCEPT !.pc[c] = "done"]

\* start(), lines 66-73: the catch around connect()
connectFailed(S, c, unsubThrows, termThrows) ==
    LET S1 == OnStatusText(S, StrFailedConnect)
        S2 == [S1 EXCEPT !.running = FALSE]
        S3 == Notice(S2, NoticeConnectFailed)
        S4 == cleanup(S3, unsubThrows, termThrows)
    IN [S4 EXCEPT !.pc[c] = "done"]

\* start(), lines 76 and 92-93: the handle is kept and the start is announced
captureStarted(S, c) ==
    LET S1 == [S EXCEPT !.mic = c, !.micStage[c] = "open", !.pc[c] = "done"]
        S2 == OnStatusText(S1, StrListening)
    IN Notice(S2, NoticeStarted)

\* start(), lines 78-80: the onPcm16Chunk callback, this.aai?.sendPcm16Chunk
onPcm16Chunk(S) ==
    IF S.aai # 0 THEN ClientSendPcm16Chunk(S, S.aai) ELSE S

(* ------------------------------ the editor ----------------------------- *)
\* editor.replaceRange(insertion, cursor) on the lines of a document
ReplaceRange(lines, insertion, cursor) ==
    LET ln == lines[cursor.line + 1]
        pre == SubSeq(ln, 1, cursor.ch)
        post == SubSeq(ln, cursor.ch + 1, Len(ln))
        parts == SplitLines(insertion)
        n == Len(parts)
        mid == IF n = 1
               THEN <<pre \o parts[1] \o post>>
               ELSE <<pre \o parts[1]>> \o SubSeq(parts, 2, n - 1)
                        \o <<parts[n] \o post>>
    IN SubSeq(lines, 1, cursor.line) \o mid
           \o SubSeq(lines, cursor.line + 2, Len(lines))

\* advanceCursor(cursor, text) keeping the column on a multi-line text
advanceCursorKeepsColumn(cursor, text) ==
    LET lines == SplitLines(text)
    IN IF Len(lines) = 1
       THEN [line |-> cursor.line, ch |-> cursor.ch + Len(lines[1])]
       ELSE [line |-> cursor.line + Len(lines) - 1,
             ch |-> cursor.ch + Len(lines[Len(lines)])]

\* advanceCursor(cursor, text)
advanceCursor(cursor, text) ==
    LET lines == SplitLines(text)
    IN IF Len(lines) = 1
       THEN [line |-> cursor.line, ch |-> cursor.ch + Len(lines[1])]
       ELSE [line |-> cursor.line + Len(lines) - 1, ch |-> Len(lines[Len(lines)])]

\* insertFinal(text) inserting in the first document, whichever is active
insertFinalIntoFirst(S, text) ==
    LET editor == IF S.activeDoc = 0 THEN 0 ELSE 1
        txt == Trim(text)
    IN IF editor = 0 THEN S
       ELSE IF txt = <<>> THEN S
       ELSE LET cursor == S.docs[editor].cursor
                prefix == IF cursor.ch = 0 THEN <<>> ELSE <<" ">>
                insertion == prefix \o txt \o <<" ">>
                S1 == Emit(S, Call("replaceRange", editor, insertion))
            IN [S1 EXCEPT !.docs[editor] =
                   [lines |-> ReplaceRange(@.lines, insertion, cursor),
                    cursor |-> advanceCursor(cursor, insertion)]]

\* insertFinal(text) without the leading space
insertFinalNoPrefix(S, text) ==
    LET editor == S.activeDoc
        txt == Trim(text)
    IN IF editor = 0 THEN S
       ELSE IF txt = <<>> THEN S
       ELSE LET cursor == S.docs[editor].cursor
                insertion == txt \o <<" ">>
                S1 == Emit(S, Call("replaceRange", editor, insertion))
            IN [S1 EXCEPT !.docs[editor] =
                   [lines |-> ReplaceRange(@.lines, insertion, cursor),
                    cursor |-> advanceCursor(cursor, insertion)]]

\* insertFinal(text) inserting all of finalized, which holds the finals that
\* found no active document
insertFinalWholeBuffer(S, text) ==
    LET editor == S.activeDoc
        txt == Trim(S.finalized)
    IN IF editor = 0 THEN S
       ELSE IF txt = <<>> THEN S
       ELSE LET cursor == S.docs[editor].cursor
                prefix == IF cursor.ch = 0 THEN <<>> ELSE <<" ">>
                insertion == prefix \o txt \o <<" ">>
                S1 == Emit(S, Call("replaceRange", editor, insertion))
            IN [S1 EXCEPT !.docs[editor] =
                   [lines |-> ReplaceRange(@.lines, insertion, cursor),
                    cursor |-> advanceCursor(cursor, insertion)]]

\* insertFinal(text) leaving the cursor where the text was inserted
insertFinalKeepsCursor(S, text) ==
    LET editor == S.activeDoc
        txt == Trim(text)
    IN IF editor = 0 THEN S
       ELSE IF txt = <<>> THEN S
       ELSE LET cursor == S.docs[editor].cursor
                prefix == IF cursor.ch = 0 THEN <<>> ELSE <<" ">>
                insertion == prefix \o txt \o <<" ">>
                S1 == Emit(S, Call("replaceRange", editor, insertion))
            IN [S1 EXCEPT !.docs[editor].lines =
                   ReplaceRange(@, insertion, cursor)]

\* insertFinal(text)
insertFinal(S, text) ==
    LET editor == S.activeDoc
        txt == Trim(text)
    IN IF editor = 0 THEN S
       ELSE IF txt = <<>> THEN S
       ELSE LET cursor == S.docs[editor].cursor
                prefix == IF cursor.ch = 0 THEN <<>> ELSE <<" ">>
                insertion == prefix \o txt \o <<" ">>
                S1 == Emit(S, Call("replaceRange", editor, insertion))
            IN [S1 EXCEPT !.docs[editor] =
                   [lines |-> ReplaceRange(@.lines, insertion, cursor),
                    cursor |-> advanceCursor(cursor, insertion)]]

(* ------------------------------- events -------------------------------- *)
TranscriptUpdate(text, isFinal) ==
    [type |-> "transcript_update", text |-> text, is_final |-> isFinal,
     message |-> <<>>]

ErrorEvent(msg) ==
    [type |-> "error", text |-> <<>>, is_final |-> FALSE, message |-> msg]

OtherEvent(type) ==
    [type |-> type, text |-> <<>>, is_final |-> FALSE, message |-> <<>>]

\* the events a client can deliver
Events ==
    {TranscriptUpdate(t, f) : t \in Texts, f \in BOOLEAN}
        \cup {ErrorEvent(m) : m \in ErrorMessages}
        \cup {OtherEvent(t) : t \in {"session_begin", "session_terminated", "unknown"}}

\* handleAaiEvent, line 117, appending the partial instead of replacing
updatePartialAppends(S, ev) == [S EXCEPT !.current = @ \o ev.text]

\* handleAaiEvent, line 117: a partial replaces current
updatePartial(S, ev) == [S EXCEPT !.current = ev.text]

\* handleAaiEvent, lines 113-115, without the trim of the final text
updateFinalNoTrim(S, ev) ==
    insertFinal([S EXCEPT !.finalized = @ \o ev.text \o <<" ">>,
                          !.current = <<>>],
                ev.text)

\* handleAaiEvent, lines 113-115, assigning finalized instead of appending
updateFinalReplaces(S, ev) ==
    insertFinal([S EXCEPT !.finalized = Trim(ev.text) \o <<" ">>,
                          !.current = <<>>],
                ev.text)

\* handleAaiEvent, lines 113-115: a final is appended to finalized, current
\* is cleared and the text is inserted in the active document
updateFinal(S, ev) ==
    insertFinal([S EXCEPT !.finalized = @ \o Trim(ev.text) \o <<" ">>,
                          !.current = <<>>],
                ev.text)

\* handleAaiEvent, lines 119-120, without the fallback for an empty preview
statusPreviewNoFallback(S) == OnStatusText(S, Trim(S.finalized \o S.current))

\* handleAaiEvent, lines 119-120, without the trim of the preview
statusPreviewUntrimmed(S) ==
    LET preview == S.finalized \o S.current
    IN OnStatusText(S, IF preview # <<>> THEN preview ELSE StrListening)

\* handleAaiEvent, lines 119-120: the status shows the trimmed buffer
statusPreview(S) ==
    LET preview == Trim(S.finalized \o S.current)
    IN OnStatusText(S, IF preview # <<>> THEN preview ELSE StrListening)

\* handleAaiEvent, lines 121-128, without the hard stop
handleErrorNoHardStop(S, ev, unsubThrows, termThrows) ==
    LET S1 == OnStatusText(S, StrTranscriptionError)
    IN Notice(S1, NoticeTranscriptionError \o ev.message)

\* handleAaiEvent, lines 121-128, stopping on every error
handleErrorAlwaysStops(S, ev, unsubThrows, termThrows) ==
    LET S1 == OnStatusText(S, StrTranscriptionError)
        S2 == Notice(S1, NoticeTranscriptionError \o ev.message)
    IN stop(S2, unsubThrows, termThrows)

\* handleAaiEvent, lines 121-128: an error is reported, and stops the
\* session when its message says the key is not authorized
handleError(S, ev, unsubThrows, termThrows) ==
    LET S1 == OnStatusText(S, StrTranscriptionError)
        S2 == Notice(S1, NoticeTranscriptionError \o ev.message)
    IN IF IsNotAuthorized(ev.message)
       THEN stop(S2, unsubThrows, termThrows)
       ELSE S2

\* handleAaiEvent(ev), stopping the session on an event of any other type
handleAaiEventStopsOnOther(S, ev, unsubThrows, termThrows) ==
    IF ev.type = "transcript_update"
    THEN statusPreview(IF ev.is_final
                       THEN updateFinal(S, ev)
                       ELSE updatePartial(S, ev))
    ELSE IF ev.type = "error"
    THEN handleError(S, ev, unsubThrows, termThrows)
    ELSE stop(S, unsubThrows, termThrows)

\* handleAaiEvent(ev)
handleAaiEvent(S, ev, unsubThrows, termThrows) ==
    IF ev.type = "transcript_update"
    THEN statusPreview(IF ev.is_final
                       THEN updateFinal(S, ev)
                       ELSE updatePartial(S, ev))
    ELSE IF ev.type = "error"
    THEN handleError(S, ev, unsubThrows, termThrows)
    ELSE S

\* toggle() calling start() when running and stop() when not
toggleInverted(S, key, unsubThrows, termThrows) ==
    IF S.running THEN start(S, key) ELSE stop(S, unsubThrows, termThrows)

\* toggle()
toggle(S, key, unsubThrows, termThrows) ==
    IF S.running THEN stop(S, unsubThrows, termThrows) ELSE start(S, key)

(* ------------------------------- actions ------------------------------- *)
NoEvent == OtherEvent("none")

\* Which of the two releases of cleanup() throw.  Only a release that is
\* called can throw: cleanup() calls unsubAai and aai.terminate() when the
\* fields are not null.
Faults(reachesCleanup) ==
    (IF reachesCleanup /\ unsubAai # 0 THEN BOOLEAN ELSE {FALSE})
        \X (IF reachesCleanup /\ aai # 0 THEN BOOLEAN ELSE {FALSE})

Op(op, c, key, ev) ==
    [op |-> op, c |-> c, wasRunning |-> running, key |-> key, ev |-> ev]

\* the status texts a step delivered, in order
StatusTexts(o) ==
    LET idx == {i \in 1..Len(o) : o[i].k = "onStatusText"}
        f[n \in 0..Len(o)] ==
            IF n = 0 THEN <<>>
            ELSE IF n \in idx THEN Append(f[n - 1], o[n].v) ELSE f[n - 1]
    IN f[Len(o)]

\* The history variables, from what the step did: stop() alone calls
\* onRunningChange(false), and start() resets the buffer when it opens a
\* session.
History ==
    /\ afterStop' =
          IF \E i \in 1..Len(out') :
                 out'[i] = Call("onRunningChange", 0, <<"false">>)
          THEN TRUE
          ELSE IF lastOp'.op \in {"start", "toggle"} THEN FALSE
          ELSE afterStop
    /\ log' =
          IF nStarts' # nStarts THEN <<>>
          ELSE IF lastOp'.op = "event"
          THEN Append(log, [ev |-> lastOp'.ev, status |-> StatusTexts(out')])
          ELSE log

ServiceInit ==
    /\ running = FALSE
    /\ aai = 0
    /\ unsubAai = 0
    /\ mic = 0
    /\ finalized = <<>>
    /\ current = <<>>
    /\ pc = [c \in Sessions |-> "none"]
    /\ client = [c \in Sessions |-> "None"]
    /\ subscribed = {}
    /\ terminated = {}
    /\ micStage = [c \in Sessions |-> "none"]
    /\ streamOpen = {}
    /\ ctxOpen = {}
    /\ activeDoc \in {0} \cup Docs
    /\ docs = [d \in Docs |->
                 [lines |-> <<<<>>>>, cursor |-> [line |-> 0, ch |-> 0]]]
    /\ lastRunning = "none"
    /\ status = <<>>
    /\ out = <<>>
    /\ threw = FALSE
    /\ lastOp = Op("init", 0, <<>>, NoEvent)
    /\ nStarts = 0
    /\ nEvents = 0
    /\ log = <<>>
    /\ afterStop = FALSE

\* no capture is looked at: the capture is the one micStage abstracts
NoCapture ==
    /\ chunkSize = 0
    /\ buf = <<>>
    /\ pos = 0
    /\ heap = <<>>
    /\ port = <<>>
    /\ onmessage = FALSE
    /\ edges = {}
    /\ tracksLive = FALSE
    /\ ctxState = "none"
    /\ rafId = FALSE
    /\ stops = <<>>
    /\ fed = <<>>
    /\ delivered = <<>>
    /\ capOut = <<>>
    /\ capOp = "none"
    /\ wav = [samples |-> <<>>, data |-> <<>>]

\* no frame was posted
NoFrames ==
    /\ emitted = [c \in Sessions |-> 0]
    /\ ports = [c \in Sessions |-> <<>>]
    /\ sent = <<>>

UpdateCalls == 1..MaxUpdateCalls

\* an updateVoiceSummaryBlockInFile call that was not made
NoCall ==
    [pc |-> "idle", blockId |-> 0, updater |-> 0, content |-> <<>>,
     nextContent |-> <<>>, result |-> "none", notice |-> "none"]

\* no note is looked at
NoStorage ==
    /\ file = <<>>
    /\ calls = [i \in UpdateCalls |-> NoCall]

Init == ServiceInit /\ NoCapture /\ NoFrames /\ NoStorage

\* a call of start(); the credential accessor returns key
Start(key) ==
    /\ running \/ Trim(key) = <<>> \/ nStarts < MaxStarts
    /\ Commit(start(Cur, key))
    /\ lastOp' = Op("start", 0, key, NoEvent)
    /\ UNCHANGED nEvents
    /\ History
    /\ UNCHANGED <<capture, frames, storage>>

\* a call of stop()
Stop ==
    /\ \E f \in Faults(running) : Commit(stop(Cur, f[1], f[2]))
    /\ lastOp' = Op("stop", 0, <<>>, NoEvent)
    /\ UNCHANGED nEvents
    /\ History
    /\ UNCHANGED <<capture, frames, storage>>

\* a call of toggle()
Toggle(key) ==
    /\ running \/ Trim(key) = <<>> \/ nStarts < MaxStarts
    /\ \E f \in Faults(running) :
           Commit(toggle(Cur, key, f[1], f[2]))
    /\ lastOp' = Op("toggle", 0, key, NoEvent)
    /\ UNCHANGED nEvents
    /\ History
    /\ UNCHANGED <<capture, frames, storage>>

\* connect() of client c resolves: start() goes on to start the capture.
\* Only a Connecting client can become Connected: after terminate() a
\* pending connect() rejects or never settles.
ConnectResolve(c) ==
    /\ pc[c] = "awaitConnect"
    /\ client[c] = "Connecting"
    /\ \E envOk \in BOOLEAN : \E f \in Faults(~envOk /\ running) :
           Commit(startMicPcm16Capture([Cur EXCEPT !.client[c] = "Connected"],
                                       c, envOk, f[1], f[2]))
    /\ lastOp' = Op("connectResolve", c, <<>>, NoEvent)
    /\ UNCHANGED nEvents
    /\ History
    /\ UNCHANGED <<capture, frames, storage>>

\* connect() of client c rejects: from Connecting, or after terminate()
ConnectReject(c) ==
    /\ pc[c] = "awaitConnect"
    /\ client[c] \in {"Connecting", "Terminated"}
    /\ \E f \in Faults(TRUE) :
           Commit(connectFailed(
                      [Cur EXCEPT !.client[c] =
                          IF @ = "Connecting" THEN "Failed" ELSE @],
                      c, f[1], f[2]))
    /\ lastOp' = Op("connectReject", c, <<>>, NoEvent)
    /\ UNCHANGED nEvents
    /\ History
    /\ UNCHANGED <<capture, frames, storage>>

\* getUserMedia resolves (lines 80-103): the stream is live and an
\* AudioContext is made; without an audioWorklet the close of the context is
\* awaited, else the load of the processor module is awaited
GetUserMediaResolve(c) ==
    /\ pc[c] = "awaitMic"
    /\ micStage[c] = "getUserMedia"
    /\ \E workletOk \in BOOLEAN :
           Commit([Cur EXCEPT
               !.streamOpen = @ \cup {c},
               !.ctxOpen = @ \cup {c},
               !.micStage[c] = IF workletOk THEN "addModule" ELSE "closeContext"])
    /\ lastOp' = Op("getUserMediaResolve", c, <<>>, NoEvent)
    /\ UNCHANGED nEvents
    /\ History
    /\ UNCHANGED <<capture, frames, storage>>

\* getUserMedia rejects (permission denied)
GetUserMediaReject(c) ==
    /\ pc[c] = "awaitMic"
    /\ micStage[c] = "getUserMedia"
    /\ \E f \in Faults(running) : Commit(captureFailed(Cur, c, f[1], f[2]))
    /\ lastOp' = Op("getUserMediaReject", c, <<>>, NoEvent)
    /\ UNCHANGED nEvents
    /\ History
    /\ UNCHANGED <<capture, frames, storage>>

\* audioContext.close() settles (lines 90-93): the context is closed when it
\* resolves, a rejection is swallowed; then startMicPcm16Capture throws
CloseContextSettle(c) ==
    /\ pc[c] = "awaitMic"
    /\ micStage[c] = "closeContext"
    /\ \E closed \in BOOLEAN : \E f \in Faults(running) :
           Commit(captureFailed(
                      [Cur EXCEPT !.ctxOpen = IF closed THEN @ \ {c} ELSE @],
                      c, f[1], f[2]))
    /\ lastOp' = Op("closeContextSettle", c, <<>>, NoEvent)
    /\ UNCHANGED nEvents
    /\ History
    /\ UNCHANGED <<capture, frames, storage>>

\* addModule resolves: the graph is connected and the handle is returned
AddModuleResolve(c) ==
    /\ pc[c] = "awaitMic"
    /\ micStage[c] = "addModule"
    /\ Commit(captureStarted(Cur, c))
    /\ lastOp' = Op("addModuleResolve", c, <<>>, NoEvent)
    /\ UNCHANGED nEvents
    /\ History
    /\ UNCHANGED <<capture, frames, storage>>

\* addModule rejects
AddModuleReject(c) ==
    /\ pc[c] = "awaitMic"
    /\ micStage[c] = "addModule"
    /\ \E f \in Faults(running) : Commit(captureFailed(Cur, c, f[1], f[2]))
    /\ lastOp' = Op("addModuleReject", c, <<>>, NoEvent)
    /\ UNCHANGED nEvents
    /\ History
    /\ UNCHANGED <<capture, frames, storage>>

\* a connected client delivers an event to its subscribed listener
EventStep(c, ev, bound) ==
    /\ client[c] = "Connected"
    /\ c \in subscribed
    /\ nEvents < bound
    /\ \E f \in Faults(running /\ ev.type = "error") :
           Commit(handleAaiEvent(Cur, ev, f[1], f[2]))
    /\ lastOp' = Op("event", c, <<>>, ev)
    /\ nEvents' = nEvents + 1
    /\ History
    /\ UNCHANGED <<capture, frames, storage>>

Event(c, ev) == EventStep(c, ev, MaxEvents)

\* the user makes another view, or none, the active one
SetActiveDoc(d) ==
    /\ d # activeDoc
    /\ Commit([Cur EXCEPT !.activeDoc = d])
    /\ lastOp' = Op("setActiveDoc", d, <<>>, NoEvent)
    /\ UNCHANGED nEvents
    /\ History
    /\ UNCHANGED <<capture, frames, storage>>

Next ==
    \/ \E key \in Keys : Start(key)
    \/ Stop
    \/ \E key \in Keys : Toggle(key)
    \/ \E c \in Sessions : ConnectResolve(c)
    \/ \E c \in Sessions : ConnectReject(c)
    \/ \E c \in Sessions : GetUserMediaResolve(c)
    \/ \E c \in Sessions : GetUserMediaReject(c)
    \/ \E c \in Sessions : CloseContextSettle(c)
    \/ \E c \in Sessions : AddModuleResolve(c)
    \/ \E c \in Sessions : AddModuleReject(c)
    \/ \E c \in Sessions, ev \in Events : Event(c, ev)
    \/ \E d \in {0} \cup Docs : SetActiveDoc(d)

Spec == Init /\ [][Next]_vars

(* ---------------------- the controller and its client ----------------- *)
\* The connection of client c drops: the client moves to Failed and gives
\* its listener, if one is subscribed, one error event; it does not connect
\* again.
Drop(c, msg) ==
    /\ client[c] = "Connected"
    /\ IF c \in subscribed
       THEN \E f \in Faults(running) :
                Commit(handleAaiEvent(ClientDrop(Cur, c), ErrorEvent(msg),
                                      f[1], f[2]))
       ELSE Commit(ClientDrop(Cur, c))
    /\ lastOp' = Op("drop", c, <<>>, ErrorEvent(msg))
    /\ UNCHANGED nEvents
    /\ History
    /\ UNCHANGED <<capture, frames, storage>>

\* the controller is started and stopped while its clients connect, deliver
\* events and lose their connection
ClientNext ==
    \/ \E key \in Keys : Start(key)
    \/ Stop
    \/ \E c \in Sessions : ConnectResolve(c)
    \/ \E c \in Sessions : ConnectReject(c)
    \/ \E c \in Sessions, ev \in Events : Event(c, ev)
    \/ \E c \in Sessions, msg \in ErrorMessages : Drop(c, msg)

SpecClient == Init /\ [][ClientNext]_vars

(* ------------------- the controller and its audio frames --------------- *)
\* The processor of capture c posts its next frame (micPcm16Capture.ts, lines
\* 36-44): it runs once the graph is connected and until the handle's
\* stop() has closed the context.
PostFrame(c) ==
    /\ micStage[c] = "open"
    /\ emitted[c] < MaxFrames
    /\ emitted' = [emitted EXCEPT ![c] = @ + 1]
    /\ ports' = [ports EXCEPT ![c] = Append(@, emitted[c] + 1)]
    /\ UNCHANGED <<service, capture, sent, storage>>

\* the sendPcm16Chunk calls of a step, each with the frame it was given
SentBy(o, c, n) ==
    LET idx == {i \in 1..Len(o) : o[i].k = "sendPcm16Chunk"}
        f[i \in 0..Len(o)] ==
            IF i = 0 THEN <<>>
            ELSE IF i \in idx
                 THEN Append(f[i - 1], [client |-> o[i].c, cap |-> c, n |-> n])
                 ELSE f[i - 1]
    IN f[Len(o)]

\* The oldest frame posted by capture c is dispatched (micPcm16Capture.ts,
\* lines 110-118): to the handler, which calls onPcm16Chunk, while the handle
\* is not stopped; to nothing once stop() has removed the handler.
DispatchFrame(c) ==
    /\ ports[c] # <<>>
    /\ Commit(IF micStage[c] = "open" THEN onPcm16Chunk(Cur) ELSE Cur)
    /\ lastOp' = Op("frame", c, <<>>, NoEvent)
    /\ ports' = [ports EXCEPT ![c] = Tail(@)]
    /\ sent' = sent \o SentBy(out', c, Head(ports[c]))
    /\ UNCHANGED <<nEvents, emitted>>
    /\ History
    /\ UNCHANGED <<capture, storage>>

\* the controller is started and stopped while its captures post frames
FramesNext ==
    \/ \E key \in Keys : Start(key)
    \/ Stop
    \/ \E c \in Sessions : ConnectResolve(c)
    \/ \E c \in Sessions : GetUserMediaResolve(c)
    \/ \E c \in Sessions : AddModuleResolve(c)
    \/ \E c \in Sessions : PostFrame(c)
    \/ \E c \in Sessions : DispatchFrame(c)

SpecFrames == Init /\ [][FramesNext]_vars

(* --------------------------- a running session ------------------------- *)
\* The state start() leaves once connect() and startMicPcm16Capture() have
\* both resolved for the first call: the session is established and the
\* listener receives events.
Established(D) ==
    /\ running = TRUE
    /\ aai = 1
    /\ unsubAai = 1
    /\ mic = 1
    /\ finalized = <<>>
    /\ current = <<>>
    /\ pc = [c \in Sessions |-> IF c = 1 THEN "done" ELSE "none"]
    /\ client = [c \in Sessions |-> IF c = 1 THEN "Connected" ELSE "None"]
    /\ subscribed = {1}
    /\ terminated = {}
    /\ micStage = [c \in Sessions |-> IF c = 1 THEN "open" ELSE "none"]
    /\ streamOpen = {1}
    /\ ctxOpen = {1}
    /\ activeDoc \in {0} \cup D
    /\ docs = [d \in D |->
                 [lines |-> <<<<>>>>, cursor |-> [line |-> 0, ch |-> 0]]]
    /\ lastRunning = "true"
    /\ status = StrListening
    /\ out = <<Call("onStatusText", 0, StrListening),
               Call("Notice", 0, NoticeStarted)>>
    /\ threw = FALSE
    /\ lastOp = [op |-> "addModuleResolve", c |-> 1, wasRunning |-> TRUE,
                 key |-> <<>>, ev |-> NoEvent]
    /\ nStarts = 1
    /\ nEvents = 0
    /\ log = <<>>
    /\ afterStop = FALSE
    /\ NoCapture
    /\ NoFrames
    /\ NoStorage

SessionInit == Established(Docs)

\* events the client of a running session delivers
SessionEvents ==
    {TranscriptUpdate(t, f) : t \in SessionTexts, f \in BOOLEAN}
        \cup {ErrorEvent(m) : m \in ErrorMessages}
        \cup {OtherEvent(t) : t \in {"session_begin", "session_terminated",
                                      "unknown"}}

SessionEvent(c, ev) == EventStep(c, ev, MaxSessionEvents)

\* the session receives events, is stopped, and is started again
SessionNext ==
    \/ \E c \in Sessions, ev \in SessionEvents : SessionEvent(c, ev)
    \/ Stop
    \/ \E key \in Keys : Start(key)
    \/ \E c \in Sessions : ConnectResolve(c)

SpecSession == SessionInit /\ [][SessionNext]_vars

(* ------------------- a running session and its documents --------------- *)
EditorInit == Established(EditorDocs)

\* events delivered while the documents are being edited
EditorEvents ==
    {TranscriptUpdate(t, TRUE) : t \in EditorTexts}
        \cup {TranscriptUpdate(<<"a">>, FALSE)}

EditorEvent(c, ev) == EventStep(c, ev, MaxEditorEvents)

\* the positions the user can place the cursor at in a document
Positions(doc) ==
    {p \in [line : 0..(Len(doc.lines) - 1), ch : 0..MaxCursorCh] :
        p.ch <= Len(doc.lines[p.line + 1])}

\* the user places the cursor of the active editor
SetCursor(p) ==
    /\ activeDoc # 0
    /\ p \in Positions(docs[activeDoc])
    /\ p # docs[activeDoc].cursor
    /\ Commit([Cur EXCEPT !.docs[activeDoc].cursor = p])
    /\ lastOp' = Op("setCursor", activeDoc, <<>>, NoEvent)
    /\ UNCHANGED nEvents
    /\ History
    /\ UNCHANGED <<capture, frames, storage>>

\* the session inserts finals while the user changes views and moves the cursor
EditorNext ==
    \/ \E c \in Sessions, ev \in EditorEvents : EditorEvent(c, ev)
    \/ \E d \in {0} \cup EditorDocs : SetActiveDoc(d)
    \/ /\ activeDoc # 0
       /\ \E p \in Positions(docs[activeDoc]) : SetCursor(p)

SpecEditor == EditorInit /\ [][EditorNext]_vars

(* ----------------------------- one capture ----------------------------- *)
\* Sample values in halves: -3 is -1.5, -1 is -0.5, 3 is 1.5.
Samples == {-3, -1, 0, 1, 3}

\* the sample values the microphone gives while the capture is torn down
CaptureSamples == {1}

\* the sequences over A of length at most n
SeqsUpTo(A, n) == UNION {[1..k -> A] : k \in 0..n}

\* The Int16 a typed array or a DataView stores for the number num / den:
\* truncated toward zero, then modulo 2^16.
ToInt16(num, den) ==
    LET t == IF num >= 0 THEN num \div den ELSE -((-num) \div den)
        m == t % 65536
    IN IF m >= 32768 THEN m - 65536 ELSE m

\* process, lines 39-40, without the clamp
Pcm16NoClamp(x) == ToInt16(IF x < 0 THEN x * 32768 ELSE x * 32767, 2)

\* process, lines 39-40: Math.max(-1, Math.min(1, x)), scaled by 0x8000 when
\* negative and by 0x7fff otherwise, stored in an Int16Array
Pcm16(x) ==
    LET s == IF x < -2 THEN -2 ELSE IF x > 2 THEN 2 ELSE x
    IN ToInt16(IF s < 0 THEN s * 32768 ELSE s * 32767, 2)

\* encodeWavFromMono, lines 94-96: the same clamp and scale, stored by
\* DataView.setInt16
encodeWavSample(x) ==
    LET s == IF x < -2 THEN -2 ELSE IF x > 2 THEN 2 ELSE x
    IN ToInt16(IF s < 0 THEN s * 32768 ELSE s * 32767, 2)

\* encodeWavFromMono(samples, sampleRate): the data after the header
encodeWavFromMono(samples) ==
    [i \in 1..Len(samples) |-> encodeWavSample(samples[i])]

\* The capture as one record, threaded through the statements of a step.
CapCur ==
    [chunkSize |-> chunkSize, buf |-> buf, pos |-> pos, heap |-> heap,
     port |-> port, onmessage |-> onmessage, edges |-> edges,
     tracksLive |-> tracksLive, ctxState |-> ctxState, rafId |-> rafId,
     stops |-> stops, capOut |-> <<>>]

\* the state a capture step leaves
CapCommit(K) ==
    /\ chunkSize' = K.chunkSize
    /\ buf' = K.buf
    /\ pos' = K.pos
    /\ heap' = K.heap
    /\ port' = K.port
    /\ onmessage' = K.onmessage
    /\ edges' = K.edges
    /\ tracksLive' = K.tracksLive
    /\ ctxState' = K.ctxState
    /\ rafId' = K.rafId
    /\ stops' = K.stops
    /\ capOut' = K.capOut

\* one call a capture step makes
CapCall(K, k, v) == [K EXCEPT !.capOut = Append(@, [k |-> k, v |-> v])]

\* process, lines 35-44, testing for a full frame before storing the sample
processSampleDropsLast(K, x) ==
    IF K.pos + 1 = K.chunkSize
    THEN LET id == Len(K.heap) + 1
             frame == [j \in 1..K.chunkSize |-> Pcm16(K.buf[j])]
             K2 == [K EXCEPT !.heap = Append(@, frame)]
             K3 == [CapCall(K2, "postMessage", id) EXCEPT !.port = Append(@, id)]
         IN [K3 EXCEPT !.pos = 0]
    ELSE [K EXCEPT !.buf[K.pos + 1] = x, !.pos = @ + 1]

\* process, lines 35-44, with one Int16Array allocated once and posted again
processSampleReusesBuffer(K, x) ==
    LET K1 == [K EXCEPT !.buf[K.pos + 1] = x, !.pos = @ + 1]
    IN IF K1.pos = K1.chunkSize
       THEN LET frame == [j \in 1..K1.chunkSize |-> Pcm16(K1.buf[j])]
                K2 == [K1 EXCEPT !.heap = IF @ = <<>> THEN <<frame>>
                                          ELSE [@ EXCEPT ![1] = frame]]
                K3 == [CapCall(K2, "postMessage", 1) EXCEPT !.port = Append(@, 1)]
            IN [K3 EXCEPT !.pos = 0]
       ELSE K1

\* process, lines 35-44, for one sample: it is stored, and when the frame is
\* full a new Int16Array is filled, posted (transferred) and pos is reset
processSample(K, x) ==
    LET K1 == [K EXCEPT !.buf[K.pos + 1] = x, !.pos = @ + 1]
    IN IF K1.pos = K1.chunkSize
       THEN LET id == Len(K1.heap) + 1
                frame == [j \in 1..K1.chunkSize |-> Pcm16(K1.buf[j])]
                K2 == [K1 EXCEPT !.heap = Append(@, frame)]
                K3 == [CapCall(K2, "postMessage", id) EXCEPT !.port = Append(@, id)]
            IN [K3 EXCEPT !.pos = 0]
       ELSE K1

\* process(inputs), lines 30-47; an absent input is the empty one
RECURSIVE process(_, _)
process(K, input) ==
    IF input = <<>> THEN K
    ELSE process(processSample(K, Head(input)), Tail(input))

\* workletNode.port.onmessage, lines 110-118: what the callback throws is caught
onmessageHandler(K, id, cbThrows) ==
    CapCall(K, "onPcm16Chunk", [data |-> id, throws |-> cbThrows])

\* tick with no try around the snapshot and its callback
tickUnguarded(K, cbThrows) ==
    LET K1 == CapCall(K, "onAudioFrame", [throws |-> cbThrows])
    IN IF cbThrows THEN CapCall(K1, "uncaught", "tick")
       ELSE [CapCall(K1, "requestAnimationFrame", "ok") EXCEPT !.rafId = TRUE]

\* tick, lines 127-136: the snapshot is taken and given to onAudioFrame,
\* what either throws is caught, and the next animation frame is requested
tick(K, cbThrows) ==
    LET K1 == CapCall(K, "onAudioFrame", [throws |-> cbThrows])
    IN [CapCall(K1, "requestAnimationFrame", "ok") EXCEPT !.rafId = TRUE]

\* the guarded steps of the handle's stop(), in the order of lines 145-162
StopSteps ==
    << "port.onmessage=null", "workletNode.disconnect", "analyser.disconnect",
       "source.disconnect", "tracks.stop", "audioContext.close" >>

\* try { step } catch {}: a step that throws has no effect
Try(K, step, f, Kok) ==
    IF step \in f THEN CapCall(K, step, "throws") ELSE CapCall(Kok, step, "ok")

\* the start of stop(), lines 141-156: the animation frame is cancelled, the
\* handler is removed and the graph is disconnected
stopGraph(K, f) ==
    LET K0 == IF K.rafId
              THEN [CapCall(K, "cancelAnimationFrame", "ok") EXCEPT !.rafId = FALSE]
              ELSE K
        K1 == Try(K0, "port.onmessage=null", f, [K0 EXCEPT !.onmessage = FALSE])
        K2 == Try(K1, "workletNode.disconnect", f, K1)
        K3 == Try(K2, "analyser.disconnect", f,
                  [K2 EXCEPT !.edges = @ \ {"analyser>worklet"}])
    IN Try(K3, "source.disconnect", f,
           [K3 EXCEPT !.edges = @ \ {"source>analyser"}])

\* the end of stop(), lines 160-162: the context is closed unless it is
\* closed already, and the close is awaited
stopContext(K, f) ==
    IF K.ctxState # "closed"
    THEN IF "audioContext.close" \in f
         THEN [CapCall(K, "audioContext.close", "throws")
                  EXCEPT !.stops = Append(@, "resolved")]
         ELSE [CapCall(K, "audioContext.close", "ok")
                  EXCEPT !.stops = Append(@, "awaitClose")]
    ELSE [K EXCEPT !.stops = Append(@, "resolved")]

\* stop() with no try around the stop of the tracks
stopHandleTracksUnguarded(K, f) ==
    LET K4 == stopGraph(K, f)
    IN IF "tracks.stop" \in f
       THEN [CapCall(K4, "tracks.stop", "throws")
                EXCEPT !.stops = Append(@, "rejected")]
       ELSE stopContext(CapCall([K4 EXCEPT !.tracksLive = FALSE],
                                "tracks.stop", "ok"), f)

\* the handle's stop(), lines 140-163, up to its await
stopHandle(K, f) ==
    LET K4 == stopGraph(K, f)
        K5 == Try(K4, "tracks.stop", f, [K4 EXCEPT !.tracksLive = FALSE])
    IN stopContext(K5, f)

\* The state startMicPcm16Capture leaves when it returns the handle (line
\* 165): the processor is empty, the handler is set, the graph is connected.
CaptureInit ==
    /\ ServiceInit
    /\ activeDoc = 0
    /\ chunkSize \in 1..MaxChunkSize
    /\ buf = [j \in 1..chunkSize |-> 0]
    /\ pos = 0
    /\ heap = <<>>
    /\ port = <<>>
    /\ onmessage = TRUE
    /\ edges = {"source>analyser", "analyser>worklet"}
    /\ tracksLive = TRUE
    /\ ctxState = "running"
    /\ rafId \in BOOLEAN
    /\ stops = <<>>
    /\ fed = <<>>
    /\ delivered = <<>>
    /\ capOut = <<>>
    /\ capOp = "start"
    /\ wav = [samples |-> <<>>, data |-> <<>>]
    /\ NoFrames
    /\ NoStorage

\* The audio thread calls process().  The microphone's samples reach it
\* while the graph is connected and the tracks are live; otherwise the
\* input is silent or absent.
ProcessStep(input, A) ==
    /\ ctxState = "running"
    /\ Len(fed) + Len(input) <= MaxSamples
    /\ input \in SeqsUpTo(IF edges = {"source>analyser", "analyser>worklet"}
                             /\ tracksLive
                          THEN A ELSE {0}, MaxInputLen)
    /\ CapCommit(process(CapCur, input))
    /\ fed' = fed \o input
    /\ capOp' = "process"
    /\ UNCHANGED <<delivered, wav>>
    /\ UNCHANGED <<service, frames, storage>>

Process(input) == ProcessStep(input, CaptureSamples)

\* The oldest posted buffer is dispatched on the main thread: to the handler
\* when there is one, to nothing otherwise.
Deliver(cbThrows) ==
    /\ port # <<>>
    /\ LET K == [CapCur EXCEPT !.port = Tail(@)]
       IN IF onmessage
          THEN /\ CapCommit(onmessageHandler(K, Head(port), cbThrows))
               /\ delivered' = Append(delivered, Head(port))
          ELSE /\ ~cbThrows
               /\ CapCommit(K)
               /\ UNCHANGED delivered
    /\ capOp' = "deliver"
    /\ UNCHANGED <<fed, wav>>
    /\ UNCHANGED <<service, frames, storage>>

\* The animation frame requested last arrives and tick runs: rafId is set
\* from the request at line 137 until stop() cancels it.
Tick(cbThrows) ==
    /\ rafId
    /\ CapCommit(tick(CapCur, cbThrows))
    /\ capOp' = "tick"
    /\ UNCHANGED <<fed, delivered, wav>>
    /\ UNCHANGED <<service, frames, storage>>

\* a call of the handle's stop(); the steps in f throw
StopHandle(f) ==
    /\ Len(stops) < MaxStopCalls
    /\ ctxState = "closed" => "audioContext.close" \notin f
    /\ CapCommit(stopHandle(CapCur, f))
    /\ capOp' = "stop"
    /\ UNCHANGED <<fed, delivered, wav>>
    /\ UNCHANGED <<service, frames, storage>>

\* the close() a stop() call awaits settles; the call returns
CloseSettle(i, ok) ==
    /\ i \in 1..Len(stops)
    /\ stops[i] = "awaitClose"
    /\ CapCommit([CapCur EXCEPT !.stops[i] = "resolved",
                                !.ctxState = IF ok THEN "closed" ELSE @])
    /\ capOp' = "closeSettle"
    /\ UNCHANGED <<fed, delivered, wav>>
    /\ UNCHANGED <<service, frames, storage>>

CaptureNext ==
    \/ \E input \in SeqsUpTo(CaptureSamples \cup {0}, MaxInputLen) :
           Process(input)
    \/ \E cbThrows \in BOOLEAN : Deliver(cbThrows)
    \/ \E cbThrows \in BOOLEAN : Tick(cbThrows)
    \/ \E f \in SUBSET {StopSteps[i] : i \in 1..Len(StopSteps)} : StopHandle(f)
    \/ \E i \in 1..MaxStopCalls, ok \in BOOLEAN : CloseSettle(i, ok)

SpecCapture == CaptureInit /\ [][CaptureNext]_vars

(* --------------------------- the PCM16 conversion ---------------------- *)
\* the capture converts what the microphone gives it
PcmProcess(input) ==
    /\ wav.samples = <<>>
    /\ ProcessStep(input, Samples)

\* a recording is encoded by encodeWavFromMono
EncodeWav(samples) ==
    /\ fed = <<>>
    /\ samples # wav.samples
    /\ wav' = [samples |-> samples, data |-> encodeWavFromMono(samples)]
    /\ capOp' = "encodeWav"
    /\ UNCHANGED <<chunkSize, buf, pos, heap, port, onmessage, edges,
                   tracksLive, ctxState, rafId, stops, fed, delivered, capOut>>
    /\ UNCHANGED <<service, frames, storage>>

PcmNext ==
    \/ \E input \in SeqsUpTo(Samples, MaxInputLen) : PcmProcess(input)
    \/ \E cbThrows \in BOOLEAN : Deliver(cbThrows)
    \/ \E samples \in SeqsUpTo(Samples, MaxWavSamples) : EncodeWav(samples)

SpecPcm == CaptureInit /\ [][PcmNext]_vars

(* ------------------------- voice summary blocks ------------------------ *)
\* A note is a sequence of pieces: text, the fence of a block (its meta and,
\* in the legacy format, its content) and the storage block of a block (its
\* content).  Offsets count pieces.  The meta and the content of a block
\* are the sets of the updates applied to them.
Blocks == 1..MaxBlocks

Text == [k |-> "text", id |-> 0, meta |-> {}, content |-> {}]

\* ```tuon-voice ... ```: buildVoiceSummaryFence
Fence(id, meta, content) ==
    [k |-> "fence", id |-> id, meta |-> meta, content |-> content]

\* buildVoiceSummaryStorageBlock(blockId, content)
buildVoiceSummaryStorageBlock(blockId, content) ==
    [k |-> "storage", id |-> blockId, meta |-> {}, content |-> content]

\* content.slice(a, b)
Slice(content, a, b) == SubSeq(content, a + 1, b)

\* the smallest element of a non-empty set of numbers
Min(A) == CHOOSE x \in A : \A y \in A : x <= y

\* findVoiceSummaryBlocks(content).find(m => m.meta?.id === blockId): the
\* place of the first fence of the block, 0 for none
findVoiceSummaryBlockById(content, blockId) ==
    LET idx == {i \in 1..Len(content) :
                   content[i].k = "fence" /\ content[i].id = blockId}
    IN IF idx = {} THEN 0 ELSE Min(idx)

\* findVoiceSummaryStorageBlock(content, blockId): the place of the first
\* storage block of the block, 0 for none
findVoiceSummaryStorageBlock(content, blockId) ==
    LET idx == {i \in 1..Len(content) :
                   content[i].k = "storage" /\ content[i].id = blockId}
    IN IF idx = {} THEN 0 ELSE Min(idx)

\* replaceRanges(content, ranges): the ranges are replaced from the last to
\* the first
RECURSIVE replaceRanges(_, _)
replaceRanges(content, ranges) ==
    IF ranges = {} THEN content
    ELSE LET r == CHOOSE x \in ranges : \A y \in ranges : y.start <= x.start
         IN replaceRanges(Slice(content, 0, r.start) \o r.text
                              \o Slice(content, r.end, Len(content)),
                          ranges \ {r})

\* insertStorageAfterFence(content, insertAt, storage); the blank lines it
\* pads with are not pieces
insertStorageAfterFence(content, insertAt, block) ==
    Slice(content, 0, insertAt) \o <<block>>
        \o Slice(content, insertAt, Len(content))

\* the data of a block in a content: its meta, and the content of its
\* storage block or else of its fence (lines 189-195)
currentData(content, blockId) ==
    LET m == findVoiceSummaryBlockById(content, blockId)
        sm == findVoiceSummaryStorageBlock(content, blockId)
    IN [meta |-> content[m].meta,
        content |-> IF sm # 0 THEN content[sm].content ELSE content[m].content]

\* an updater: u # 0 records itself in the meta and in the content, 0 is
\* the identity migrateVoiceSummaryBlocksInFile passes
Updater(u, data) ==
    IF u = 0 THEN data
    ELSE [meta |-> data.meta \cup {u}, content |-> data.content \cup {u}]

\* updateVoiceSummaryBlockInFile, lines 197-216: the content to write
nextContent(content, blockId, u) ==
    LET m == findVoiceSummaryBlockById(content, blockId)
        sm == findVoiceSummaryStorageBlock(content, blockId)
        nextData == Updater(u, currentData(content, blockId))
        nextFence == Fence(blockId, nextData.meta, {})
        nextStorage == buildVoiceSummaryStorageBlock(blockId, nextData.content)
    IN IF sm # 0
       THEN replaceRanges(content,
                { [start |-> m - 1, end |-> m, text |-> <<nextFence>>],
                  [start |-> sm - 1, end |-> sm, text |-> <<nextStorage>>] })
       ELSE LET withFence == Slice(content, 0, m - 1) \o <<nextFence>>
                                 \o Slice(content, m, Len(content))
            IN insertStorageAfterFence(withFence, m, nextStorage)

\* a note of n blocks, each with or without its storage block
RECURSIVE Note(_, _)
Note(n, stored) ==
    IF n = 0 THEN <<>>
    ELSE Note(n - 1, stored) \o <<Fence(n, {}, {})>>
             \o (IF stored THEN <<buildVoiceSummaryStorageBlock(n, {})>>
                  ELSE <<>>)
             \o <<Text>>

StorageInit ==
    /\ ServiceInit
    /\ activeDoc = 0
    /\ NoCapture
    /\ NoFrames
    /\ file \in {Note(n, stored) : n \in Blocks, stored \in BOOLEAN}
    /\ calls = [i \in UpdateCalls |-> NoCall]

\* updateVoiceSummaryBlockInFile is called (lines 175-181): without a file
\* at the path it shows a notice and returns null, else it reads the file
UpdateCall(i, blockId, u, isFile) ==
    /\ calls[i].pc = "idle"
    /\ calls' = [calls EXCEPT ![i] =
          IF isFile
          THEN [@ EXCEPT !.pc = "read", !.blockId = blockId, !.updater = u]
          ELSE [@ EXCEPT !.pc = "done", !.blockId = blockId, !.updater = u,
                         !.result = "null", !.notice = "no note"]]
    /\ UNCHANGED <<file, service, capture, frames>>

\* app.vault.read resolves (lines 181-217): without the block a notice is
\* shown and null returned, else the next content is computed from the
\* content read and app.vault.modify is called with it
ReadResolve(i) ==
    /\ calls[i].pc = "read"
    /\ calls' = [calls EXCEPT ![i] =
          IF findVoiceSummaryBlockById(file, calls[i].blockId) = 0
          THEN [@ EXCEPT !.pc = "done", !.content = file,
                         !.result = "null", !.notice = "no block"]
          ELSE [@ EXCEPT !.pc = "modify", !.content = file,
                         !.nextContent = nextContent(file, calls[i].blockId,
                                                     calls[i].updater)]]
    /\ UNCHANGED <<file, service, capture, frames>>

\* app.vault.modify resolves (lines 217-218): the note holds the content
\* that was computed, and the call returns the data
ModifyResolve(i) ==
    /\ calls[i].pc = "modify"
    /\ file' = calls[i].nextContent
    /\ calls' = [calls EXCEPT ![i] = [@ EXCEPT !.pc = "done",
                                               !.result = "data"]]
    /\ UNCHANGED <<service, capture, frames>>

StorageNext ==
    \/ \E i \in UpdateCalls, b \in Blocks, isFile \in BOOLEAN :
           \E u \in {0, i} : UpdateCall(i, b, u, isFile)
    \/ \E i \in UpdateCalls : ReadResolve(i)
    \/ \E i \in UpdateCalls : ModifyResolve(i)

SpecStorage == StorageInit /\ [][StorageNext]_vars

(* ------------------------------- claims -------------------------------- *)
\* captures whose handle was returned to start() and not stopped since
OpenCaptures == {c \in Sessions : micStage[c] = "open"}

\* clients that were created and on which terminate() was not called
LiveClients == {c \in Sessions : client[c] # "None" /\ c \notin terminated}

\* the Notice calls of the last step
Notices == {i \in 1..Len(out) : out[i].k = "Notice"}

\* the last step called k on client or capture c
Called(o, k, c) == \E i \in 1..Len(o) : o[i].k = k /\ o[i].c = c

\* the steps in which startMicPcm16Capture rejected and start() returned
CaptureRejected ==
    /\ lastOp.op \in {"connectResolve", "getUserMediaReject",
                      "closeContextSettle", "addModuleReject"}
    /\ micStage[lastOp.c] = "rejected"

\* C1: in every reachable state at most one microphone capture is open (its
\* handle returned and not stopped) and at most one client is created and
\* not terminated.
C1_AtMostOneCaptureAndClient ==
    /\ Cardinality(OpenCaptures) <= 1
    /\ Cardinality(LiveClients) <= 1

\* C2: a start() call made while running is true changes no field of the
\* controller, creates no client, subscribes no listener, starts no capture
\* and makes no call at all (no status or running callback).
C2_StartWhileRunningIsNoOp ==
    [][(lastOp'.op = "start" /\ running)
          => /\ out' = <<>>
             /\ UNCHANGED <<ctl, pc, client, subscribed, terminated, micStage,
                            streamOpen, ctxOpen, lastRunning, status, nStarts>>]_vars

C2_Witness ==
    /\ lastOp.op = "start"
    /\ lastOp.wasRunning
    /\ current # <<>>
    /\ \E c \in Sessions : pc[c] = "awaitMic"

\* C3: the capture of a start() call is started only by the step in which
\* that call's connect() resolves, with the client Connected; the step in
\* which connect() rejects ends the call with no capture started.
C3_CaptureOnlyAfterConnect ==
    [][/\ \A c \in Sessions :
             (micStage[c] = "none" /\ micStage'[c] # "none")
                 => /\ lastOp'.op = "connectResolve"
                    /\ lastOp'.c = c
                    /\ client[c] = "Connecting"
       /\ lastOp'.op = "connectReject"
             => /\ micStage'[lastOp'.c] = "none"
                /\ pc'[lastOp'.c] = "done"
                /\ ~Called(out', "startMicPcm16Capture", lastOp'.c)]_vars

C3_Witness ==
    /\ lastOp.op = "connectResolve"
    /\ micStage[lastOp.c] = "getUserMedia"
    /\ Called(out, "startMicPcm16Capture", lastOp.c)

\* C4: whenever a capture is open the controller is running and holds a
\* client that is connected and not terminated.
C4_OpenCaptureHasLiveSession ==
    \A c \in OpenCaptures :
        /\ running
        /\ aai # 0
        /\ client[aai] = "Connected"
        /\ aai \notin terminated

\* C5: start() with an empty or whitespace-only credential, when not
\* running, only shows the missing-key notice: no client, no connection, no
\* capture, no callback, and running stays false.
C5_EmptyCredential ==
    [][(lastOp'.op = "start" /\ ~running /\ Trim(lastOp'.key) = <<>>)
          => /\ out' = <<Call("Notice", 0, NoticeMissingKey)>>
             /\ ~running'
             /\ UNCHANGED <<ctl, pc, client, subscribed, terminated, micStage,
                            streamOpen, ctxOpen, lastRunning, status, nStarts>>]_vars

C5_Witness ==
    /\ lastOp.op = "start"
    /\ ~lastOp.wasRunning
    /\ lastOp.key = <<" ">>
    /\ out = <<Call("Notice", 0, NoticeMissingKey)>>

\* C6: when start() returns after connect() resolved and the capture start
\* rejected, its client is terminated and unsubscribed, running is false,
\* the last value given to onRunningChange is false, no capture handle is
\* held and the microphone notice was shown.
C6_CaptureFailureTearsDown ==
    CaptureRejected
        => /\ lastOp.c \in terminated
           /\ lastOp.c \notin subscribed
           /\ ~running
           /\ lastRunning = "false"
           /\ mic = 0
           /\ \E i \in Notices : out[i].v = NoticeMicFailed

\* C7: when start() returns after connect() rejected, its client is
\* terminated and unsubscribed, the controller holds no client, no
\* unsubscribe function and no capture handle, the call started no
\* capture (no stream, no audio context), running is false and exactly one
\* notice was shown.
C7_ConnectFailureLeavesNothingOpen ==
    lastOp.op = "connectReject"
        => /\ lastOp.c \in terminated
           /\ lastOp.c \notin subscribed
           /\ aai = 0
           /\ unsubAai = 0
           /\ mic = 0
           /\ micStage[lastOp.c] = "none"
           /\ lastOp.c \notin streamOpen \cup ctxOpen
           /\ ~running
           /\ Cardinality(Notices) = 1
           /\ \E i \in Notices : out[i].v = NoticeConnectFailed

C7_Witness ==
    /\ lastOp.op = "connectReject"
    /\ lastOp.wasRunning
    /\ client[lastOp.c] = "Failed"

\* C8: the last value given to onRunningChange is the value of running
\* (and running is false while nothing was given).
C8_RunningCallbackTracksFlag ==
    lastRunning = (IF running THEN "true" ELSE "false")
        \/ (lastRunning = "none" /\ ~running)

\* C9: a stop() call made while running is false changes nothing, makes no
\* call (no callback, no terminate, no capture stop) and does not throw.
C9_StopWhenNotRunningIsNoOp ==
    [][(lastOp'.op = "stop" /\ ~running)
          => /\ out' = <<>>
             /\ ~threw'
             /\ UNCHANGED <<ctl, pc, client, subscribed, terminated, micStage,
                            streamOpen, ctxOpen, activeDoc, docs, lastRunning,
                            status, nStarts, nEvents>>]_vars

C9_Witness ==
    /\ lastOp.op = "stop"
    /\ ~lastOp.wasRunning
    /\ nStarts > 0
    /\ terminated # {}

\* C10: a stop() call made while running calls the unsubscribe function,
\* terminate() on the client and stop() on the capture handle if one is
\* held, leaves the three fields null, and lets no exception escape,
\* whichever of the unsubscribe and terminate calls throw.
C10_StopReleasesEverything ==
    [][(lastOp'.op = "stop" /\ running)
          => /\ unsubAai # 0 /\ Called(out', "unsubscribe", unsubAai)
             /\ aai # 0 /\ Called(out', "terminate", aai)
             /\ mic # 0 => Called(out', "mic.stop", mic)
             /\ unsubAai' = 0 /\ aai' = 0 /\ mic' = 0
             /\ ~threw']_vars

C10_Witness ==
    /\ lastOp.op = "stop"
    /\ lastOp.wasRunning
    /\ \E i \in 1..Len(out) : out[i].k = "unsubscribe" /\ out[i].v = <<"throws">>
    /\ \E i \in 1..Len(out) : out[i].k = "terminate" /\ out[i].v = <<"throws">>
    /\ \E i \in 1..Len(out) : out[i].k = "mic.stop"

\* s is a prefix of t
IsPrefix(s, t) == Len(s) <= Len(t) /\ SubSeq(t, 1, Len(s)) = s

\* the last step handled a transcript_update event
TranscriptHandled == lastOp.op = "event" /\ lastOp.ev.type = "transcript_update"

\* the last step handled a final transcript_update event
FinalHandled == TranscriptHandled /\ lastOp.ev.is_final

\* the final transcript_update events among the first n entries of the log
FinalsOf(l) ==
    {i \in 1..Len(l) : l[i].ev.type = "transcript_update" /\ l[i].ev.is_final}

\* trim(E.text) followed by one space, for each final event of l in order
RECURSIVE FinalsText(_)
FinalsText(l) ==
    IF l = <<>> THEN <<>>
    ELSE LET e == l[Len(l)].ev
             front == FinalsText(SubSeq(l, 1, Len(l) - 1))
         IN IF e.type = "transcript_update" /\ e.is_final
            THEN front \o Trim(e.text) \o <<" ">>
            ELSE front

\* the status texts a step delivered are all empty
OnlyEmptyStatus(o) == \A i \in 1..Len(o) : o[i].k = "onStatusText" => o[i].v = <<>>

\* C11: immediately after a stop() call made while running returns, both
\* finalized and current are the empty string.
C11_StopClearsBuffer ==
    (lastOp.op = "stop" /\ lastOp.wasRunning)
        => finalized = <<>> /\ current = <<>>

\* C12: the last status text a stop() call made while running delivers is
\* the empty string, and from that stop() returning until the next start()
\* call no non-empty status text is delivered.
C12_StatusStaysEmptyAfterStop ==
    [][/\ (lastOp'.op = "stop" /\ running)
            => /\ StatusTexts(out') # <<>>
               /\ StatusTexts(out')[Len(StatusTexts(out'))] = <<>>
       /\ (afterStop /\ lastOp'.op \notin {"start", "toggle"})
            => OnlyEmptyStatus(out')]_vars

\* the fields a handler can change, as Commit assigns them
effect == <<running, aai, unsubAai, mic, finalized, current, pc, client,
            subscribed, terminated, micStage, streamOpen, ctxOpen, activeDoc,
            docs, lastRunning, status, out, threw, nStarts>>

EffectOf(S) ==
    <<S.running, S.aai, S.unsubAai, S.mic, S.finalized, S.current, S.pc,
      S.client, S.subscribed, S.terminated, S.micStage, S.streamOpen,
      S.ctxOpen, S.activeDoc, S.docs, S.lastRunning, S.status, S.out,
      S.threw, S.nStarts>>

\* C13: a toggle() call made while running is true does exactly what stop()
\* does in that state (also while start() is awaiting connect), and a
\* toggle() call made while running is false does exactly what start() does.
C13_ToggleIsStopOrStart ==
    [][lastOp'.op = "toggle"
          => IF running
             THEN \E u, t \in BOOLEAN : effect' = EffectOf(stop(Cur, u, t))
             ELSE effect' = EffectOf(start(Cur, lastOp'.key))]_vars

C13_Witness ==
    /\ lastOp.op = "toggle"
    /\ lastOp.wasRunning
    /\ ~running
    /\ \E c \in Sessions : pc[c] = "awaitConnect" /\ c \in terminated

\* C14: after a partial transcript_update event is handled, current equals
\* that event's text verbatim (untrimmed, not appended to earlier partials)
\* and finalized is unchanged.
C14_PartialReplacesCurrent ==
    [][(lastOp'.op = "event" /\ lastOp'.ev.type = "transcript_update"
            /\ ~lastOp'.ev.is_final)
          => /\ current' = lastOp'.ev.text
             /\ finalized' = finalized]_vars

C14_Witness ==
    /\ TranscriptHandled
    /\ ~lastOp.ev.is_final
    /\ lastOp.ev.text = <<" ", "a", " ">>
    /\ current = <<" ", "a", " ">>
    /\ Len(log) >= 2
    /\ log[Len(log) - 1].ev = TranscriptUpdate(<<"h", "e", "l">>, FALSE)
    /\ finalized # <<>>

\* C15: within one session finalized is the concatenation, in arrival
\* order, of trim(E.text) followed by one space for each final event E
\* handled so far, whatever partials came between, and current is empty
\* immediately after each final event.
C15_FinalizedIsConcatenation ==
    /\ finalized = FinalsText(log)
    /\ FinalHandled => current = <<>>

C15_Witness ==
    /\ FinalHandled
    /\ Cardinality(FinalsOf(log)) >= 2
    /\ \E i \in 1..Len(log) :
           log[i].ev.type = "transcript_update" /\ ~log[i].ev.is_final
    /\ \E i \in FinalsOf(log) :
           Trim(log[i].ev.text) # log[i].ev.text /\ Trim(log[i].ev.text) # <<>>
    /\ current = <<>>

\* C16: every step other than the reset of a start() that passes the
\* running and credential checks leaves the old finalized as a prefix of
\* the new one; that reset leaves finalized and current empty.
C16_FinalizedAppendOnly ==
    [][IF nStarts' # nStarts
       THEN finalized' = <<>> /\ current' = <<>>
       ELSE IsPrefix(finalized, finalized')]_vars

C16_Witness ==
    /\ lastOp.op = "stop"
    /\ lastOp.wasRunning
    /\ Cardinality(FinalsOf(log)) >= 2
    /\ finalized = FinalsText(log)
    /\ Len(finalized) >= 4

\* C17 as stated: after every transcript_update event exactly one status
\* text is delivered and it equals trim(finalized + current), also when
\* that string is empty.
C17_StatusIsTrimmedBuffer ==
    [][(lastOp'.op = "event" /\ lastOp'.ev.type = "transcript_update")
          => StatusTexts(out') = <<Trim(finalized' \o current')>>]_vars

\* C17 amended: after every transcript_update event exactly one status text
\* is delivered; it equals trim(finalized + current) when that string is
\* not empty, and "Listening..." when it is empty.
C17_StatusIsTrimmedBufferOrListening ==
    [][(lastOp'.op = "event" /\ lastOp'.ev.type = "transcript_update")
          => StatusTexts(out') =
                 << IF Trim(finalized' \o current') # <<>>
                    THEN Trim(finalized' \o current')
                    ELSE StrListening >>]_vars

C17_Witness ==
    /\ TranscriptHandled
    /\ Trim(finalized \o current) = <<>>
    /\ finalized \o current # <<>>
    /\ log[Len(log)].status = <<StrListening>>

\* the events of the scenario: partial "hel", partial "hello", final "hello."
ScenarioEvents ==
    << TranscriptUpdate(<<"h", "e", "l">>, FALSE),
       TranscriptUpdate(<<"h", "e", "l", "l", "o">>, FALSE),
       TranscriptUpdate(<<"h", "e", "l", "l", "o", ".">>, TRUE) >>

\* the session handled exactly the events of the scenario, the last just now
ScenarioHandled ==
    /\ FinalHandled
    /\ Len(log) = 3
    /\ \A i \in 1..3 : log[i].ev = ScenarioEvents[i]

C19_AuthErrorHardStop ==
    [][(lastOp'.op = "event" /\ lastOp'.ev.type = "error"
            /\ IsNotAuthorized(lastOp'.ev.message) /\ running)
          => /\ ~running'
             /\ \E i \in 1..Len(out') :
                    out'[i] = Call("onRunningChange", 0, <<"false">>)
             /\ lastRunning' = "false"
             /\ lastOp'.c \notin subscribed'
             /\ lastOp'.c \in terminated'
             /\ aai' = 0 /\ unsubAai' = 0 /\ mic' = 0
             /\ mic # 0 => Called(out', "mic.stop", mic) /\ micStage'[mic] # "open"
             /\ \A i \in 1..Len(out') :
                    out'[i].k \notin {"new client", "onEvent", "connect",
                                      "startMicPcm16Capture", "getUserMedia"}
             /\ nStarts' = nStarts
             /\ pc' = pc
             /\ \A c \in Sessions : client[c] = "None" => client'[c] = "None"]_vars

C19_Witness ==
    /\ lastOp.op = "event"
    /\ lastOp.ev = ErrorEvent(<<"Not authorized", ": invalid key">>)
    /\ lastOp.wasRunning
    /\ ~running
    /\ lastOp.c \in terminated
    /\ \E i \in 1..Len(out) : out[i].k = "mic.stop"

\* C20: an error event whose message does not indicate an authorization
\* failure is reported (status text and notice) and changes neither
\* running, the client reference, the subscription, the capture handle,
\* finalized nor current; the client stays connected and subscribed, so
\* later events reach the handler.
C20_OtherErrorLeavesSession ==
    [][(lastOp'.op = "event" /\ lastOp'.ev.type = "error"
            /\ ~IsNotAuthorized(lastOp'.ev.message))
          => /\ UNCHANGED <<running, aai, unsubAai, mic, finalized, current,
                            subscribed, terminated, client, micStage,
                            lastRunning>>
             /\ out' = << Call("onStatusText", 0, StrTranscriptionError),
                          Call("Notice", 0,
                               NoticeTranscriptionError \o lastOp'.ev.message) >>
             /\ client'[lastOp'.c] = "Connected"
             /\ lastOp'.c \in subscribed']_vars

C20_Witness ==
    /\ TranscriptHandled
    /\ running
    /\ Len(log) >= 2
    /\ log[Len(log) - 1].ev = ErrorEvent(<<"temporary network blip">>)
    /\ log[Len(log)].status = <<Trim(finalized \o current)>>
    /\ current = <<"h", "e", "l">>

\* the last step handled an event of a type other than transcript_update and error
OtherHandled ==
    lastOp.op = "event" /\ lastOp.ev.type \notin {"transcript_update", "error"}

\* C21: a session_begin event, a session_terminated event and an event of
\* any unrecognized type leave finalized, current, running, the active
\* document and every document's content unchanged, and the handler raises
\* nothing.
C21_OtherEventsIgnored ==
    [][(lastOp'.op = "event"
            /\ lastOp'.ev.type \notin {"transcript_update", "error"})
          => /\ UNCHANGED <<finalized, current, running, activeDoc, docs>>
             /\ ~threw']_vars

C21_Witness ==
    /\ OtherHandled
    /\ lastOp.ev.type = "session_terminated"
    /\ running
    /\ finalized # <<>>
    /\ current # <<>>
    /\ activeDoc # 0
    /\ docs[activeDoc].lines # <<<<>>>>

\* the insertions a step made: the replaceRange calls, in order
Insertions(o) ==
    LET f[n \in 0..Len(o)] ==
            IF n = 0 THEN <<>>
            ELSE IF o[n].k = "replaceRange"
            THEN Append(f[n - 1], [doc |-> o[n].c, text |-> o[n].v])
            ELSE f[n - 1]
    IN f[Len(o)]

\* the step being taken handles a final transcript_update event
FinalStep == lastOp'.op = "event" /\ lastOp'.ev.type = "transcript_update"
                 /\ lastOp'.ev.is_final

\* C22: a final event changes no document but the one that is active when
\* it is handled; every insertion it makes goes to that document, and that
\* document changes when the event carries text.
C22_InsertsIntoActiveDocument ==
    [][FinalStep
          => /\ \A d \in DOMAIN docs : d # activeDoc => docs'[d] = docs[d]
             /\ \A i \in 1..Len(Insertions(out')) :
                    Insertions(out')[i].doc = activeDoc
             /\ (activeDoc # 0 /\ Trim(lastOp'.ev.text) # <<>>)
                    => docs'[activeDoc].lines # docs[activeDoc].lines]_vars

C22_Witness ==
    /\ FinalHandled
    /\ activeDoc = 2
    /\ Called(out, "replaceRange", 2)
    /\ docs[1].lines # <<<<>>>>
    /\ docs[2].lines # <<<<>>>>

\* what the claim says is inserted for a final text at a cursor
ExpectedInsertion(text, cursor) ==
    (IF cursor.ch # 0 THEN <<" ">> ELSE <<>>) \o Trim(text) \o <<" ">>

\* C23 as stated: on every final event with an active document, what is
\* inserted at the cursor is one space iff the column is not zero, then
\* trim(text), then one space.
C23_InsertionText ==
    [][(FinalStep /\ activeDoc # 0)
          => Insertions(out') =
                 << [doc |-> activeDoc,
                     text |-> ExpectedInsertion(lastOp'.ev.text,
                                                docs[activeDoc].cursor)] >>]_vars

\* C23 amended: on every final event with an active document whose trimmed
\* text is not empty, what is inserted at the cursor is one space iff the
\* column is not zero, then trim(text), then one space; a final whose text
\* is empty or only whitespace inserts nothing and leaves the document and
\* its cursor unchanged.
C23_InsertionTextUnlessBlank ==
    [][(FinalStep /\ activeDoc # 0)
          => IF Trim(lastOp'.ev.text) # <<>>
             THEN Insertions(out') =
                      << [doc |-> activeDoc,
                          text |-> ExpectedInsertion(lastOp'.ev.text,
                                                     docs[activeDoc].cursor)] >>
             ELSE Insertions(out') = <<>> /\ docs' = docs]_vars

C23_Witness ==
    /\ FinalHandled
    /\ lastOp.ev.text = <<" ", "a", "\n", "b", " ">>
    /\ Insertions(out) = << [doc |-> activeDoc,
                             text |-> <<" ", "a", "\n", "b", " ">>] >>
    /\ \E i \in 1..Len(log) :
           /\ log[i].ev = TranscriptUpdate(<<" ">>, TRUE)
           /\ log[i].status # <<>>

\* the positions of the newlines of a text
Newlines(s) == {i \in 1..Len(s) : s[i] = "\n"}

\* the largest element of a non-empty set of numbers
Max(A) == CHOOSE x \in A : \A y \in A : y <= x

\* C24: after an insertion of s at cursor (line, ch), the cursor is at
\* (line, ch + length(s)) when s has no newline, and at (line + k, length of
\* the text after the last newline) when s has k >= 1 newlines.
C24_CursorAdvance ==
    [][\A i \in 1..Len(Insertions(out')) :
           LET d == Insertions(out')[i].doc
               t == Insertions(out')[i].text
               k == Cardinality(Newlines(t))
               at == docs[d].cursor
           IN docs'[d].cursor =
                  IF k = 0
                  THEN [line |-> at.line, ch |-> at.ch + Len(t)]
                  ELSE [line |-> at.line + k,
                        ch |-> Len(t) - Max(Newlines(t))]]_vars

C24_Witness ==
    /\ FinalHandled
    /\ activeDoc # 0
    /\ Insertions(out) = << [doc |-> activeDoc,
                             text |-> <<" ", "a", "\n", "b", " ">>] >>
    /\ docs[activeDoc].cursor = [line |-> 2, ch |-> 2]
    /\ Len(docs[activeDoc].lines) = 3

\* C25: a final event handled while no document is active changes no
\* document, is appended to finalized and shown in the status; and every
\* change of a document's content is the insertion of the text of the final
\* event being handled, so a text that was skipped is never inserted later.
C25_NoActiveDocumentSkips ==
    [][/\ (FinalStep /\ activeDoc = 0)
            => /\ docs' = docs
               /\ Insertions(out') = <<>>
               /\ finalized' = finalized \o Trim(lastOp'.ev.text) \o <<" ">>
               /\ Trim(finalized') # <<>> => status' = Trim(finalized')
       /\ \A d \in DOMAIN docs :
              docs'[d].lines # docs[d].lines
                 => /\ FinalStep
                    /\ Insertions(out') =
                           << [doc |-> d,
                               text |-> ExpectedInsertion(lastOp'.ev.text,
                                                          docs[d].cursor)] >>]_vars

C25_Witness ==
    /\ FinalHandled
    /\ activeDoc # 0
    /\ log = << [ev |-> TranscriptUpdate(<<"a">>, TRUE),
                 status |-> << <<"a">> >>],
               [ev |-> TranscriptUpdate(<<" ", "a", "\n", "b", " ">>, TRUE),
                status |-> << <<"a", " ", "a", "\n", "b">> >>] >>
    /\ docs[activeDoc].lines = << <<"a">>, <<"b", " ">> >>
    /\ \A d \in DOMAIN docs : d # activeDoc => docs[d].lines = <<<<>>>>

\* the Int16 value the conversion is to give for each sample value
ExpectedPcm16(x) ==
    CASE x = -3 -> -32768
      [] x = -1 -> -16384
      [] x = 0 -> 0
      [] x = 1 -> 16383
      [] x = 3 -> 32767

\* the buffers posted so far, in the order they were posted
Posted == delivered \o port

\* C26: whatever the frame size and however the samples are split over
\* process() calls, after N samples exactly floor(N / C) frames were posted,
\* frame i holds the C samples from (i - 1) * C + 1 on, converted, in input
\* order; no shorter frame is posted and 0 <= pos < C, pos being the number
\* of samples waiting.
C26_FramesAreConsecutiveChunks ==
    /\ Len(heap) = Len(fed) \div chunkSize
    /\ Posted = [i \in 1..Len(heap) |-> i]
    /\ \A i \in 1..Len(heap) :
           /\ Len(heap[i]) = chunkSize
           /\ \A j \in 1..chunkSize :
                  heap[i][j] = ExpectedPcm16(fed[(i - 1) * chunkSize + j])
    /\ pos >= 0 /\ pos < chunkSize
    /\ pos = Len(fed) % chunkSize
    /\ \A j \in 1..pos : buf[j] = fed[Len(fed) - pos + j]

C26_Witness ==
    /\ capOp = "process"
    /\ chunkSize = 2
    /\ fed = <<3, -1, 1>>
    /\ Len(heap) = 1
    /\ pos = 1
    /\ Len(capOut) = 0

\* C27: every converted sample lies in [-32768, 32767]; 1.5 gives 32767,
\* -1.5 gives -32768, 0 gives 0, and a sample inside the range is scaled by
\* 32768 when negative and by 32767 otherwise; encodeWavFromMono converts
\* the same way.
C27_Pcm16Conversion ==
    /\ \A i \in 1..Len(heap) : \A j \in 1..Len(heap[i]) :
           /\ heap[i][j] >= -32768 /\ heap[i][j] <= 32767
           /\ heap[i][j] = ExpectedPcm16(fed[(i - 1) * chunkSize + j])
    /\ \A i \in 1..Len(wav.data) :
           wav.data[i] = ExpectedPcm16(wav.samples[i])

C27_Witness ==
    /\ fed = <<3, -3, 0>>
    /\ heap = << <<32767>>, <<-32768>>, <<0>> >>

\* C28: a buffer that was posted keeps its contents whatever is fed or
\* posted later, every post is of a buffer not posted before, and no buffer
\* reaches the frame callback twice.
C28_FramesAreFreshAndKept ==
    [][/\ \A i \in 1..Len(heap) : i \in 1..Len(heap') /\ heap'[i] = heap[i]
       /\ \A i, j \in 1..Len(Posted') : Posted'[i] = Posted'[j] => i = j
       /\ \A i, j \in 1..Len(delivered') :
              delivered'[i] = delivered'[j] => i = j]_vars

C28_Witness ==
    /\ capOp = "process"
    /\ Len(heap) = 3
    /\ heap[1] # heap[3]
    /\ delivered = <<1, 2>>
    /\ port = <<3>>

StopCalls(o) ==
    LET f[n \in 0..Len(o)] ==
            IF n = 0 THEN <<>>
            ELSE IF o[n].k = "cancelAnimationFrame" THEN f[n - 1]
            ELSE Append(f[n - 1], o[n].k)
    IN f[Len(o)]

\* the step k of the stop() call just made did not throw
StepOk(o, k) == \E i \in 1..Len(o) : o[i].k = k /\ o[i].v = "ok"

\* C30: whichever of its steps throw, a stop() call attempts all of them in
\* the order handler removal, graph disconnection, track stop, context
\* close, the close being left out exactly when the context is closed
\* already (as on a second call); each step that does not throw takes
\* effect, and no call's promise is ever rejected.
C30_StopHandleGuardsEachStep ==
    [][/\ capOp' = "stop"
            => /\ StopCalls(capOut') =
                      SubSeq(StopSteps, 1, 5)
                          \o (IF ctxState # "closed"
                              THEN <<"audioContext.close">> ELSE <<>>)
               /\ StepOk(capOut', "port.onmessage=null") => ~onmessage'
               /\ StepOk(capOut', "analyser.disconnect")
                      => "analyser>worklet" \notin edges'
               /\ StepOk(capOut', "source.disconnect")
                      => "source>analyser" \notin edges'
               /\ StepOk(capOut', "tracks.stop") => ~tracksLive'
               /\ ~rafId'
               /\ Len(stops') = Len(stops) + 1
       /\ \A i \in 1..Len(stops') : stops'[i] \in {"awaitClose", "resolved"}
       /\ capOp' = "closeSettle" => \E i \in 1..Len(stops) :
              stops[i] = "awaitClose" /\ stops'[i] = "resolved"]_vars

C30_Witness ==
    /\ capOp = "stop"
    /\ Len(stops) = 2
    /\ \A i \in 1..2 : stops[i] = "resolved"
    /\ ctxState = "closed"
    /\ ~StepOk(capOut, "audioContext.close")
    /\ Len(StopCalls(capOut)) = 5
    /\ \A i \in 1..Len(capOut) : capOut[i].v = "throws"

\* C31: once startMicPcm16Capture has rejected, nothing it acquired is left
\* open: the tracks of its stream are not live and its audio context is
\* closed.
C31_RejectedCaptureLeavesNothingOpen ==
    \A c \in Sessions :
        micStage[c] = "rejected" => c \notin streamOpen \cup ctxOpen

\* the frames given to sendPcm16Chunk of client c, in order
RECURSIVE SentTo(_, _)
SentTo(l, c) ==
    IF l = <<>> THEN <<>>
    ELSE LET front == SentTo(SubSeq(l, 1, Len(l) - 1), c)
         IN IF l[Len(l)].client = c THEN Append(front, l[Len(l)]) ELSE front

\* C32: the frames given to sendPcm16Chunk of a session's client are the
\* frames its capture posted, in the order they were posted, none twice and
\* none out of order: the i-th frame sent is the i-th frame of that capture.
C32_FramesSentInProductionOrder ==
    \A c \in Sessions :
        LET l == SentTo(sent, c)
        IN \A i \in 1..Len(l) : l[i].cap = c /\ l[i].n = i

\* C33: sendPcm16Chunk is called only on a client whose connect() has
\* resolved, and only with a frame of the capture of that client's session.
C33_FramesOnlyToOwnConnectedClient ==
    [][\A i \in (Len(sent) + 1)..Len(sent') :
           /\ client[sent'[i].client] = "Connected"
           /\ sent'[i].client = sent'[i].cap]_vars

\* The session of start() call c was stopped: stop() was called while it was
\* the running session (by the user or by the handler of an authorization
\* error), or a later start() call was made, which requires that.
StoppedSession(c) == c < nStarts \/ (c = nStarts /\ afterStop)

Rank(st) ==
    CASE st = "None" -> 0
      [] st = "Idle" -> 1
      [] st = "Connecting" -> 2
      [] st = "Connected" -> 3
      [] OTHER -> 4

\* C35: a client's state only moves forward along Idle, Connecting,
\* Connected, then Terminated or Failed, and never leaves Terminated or
\* Failed; an event is delivered only by a client that is Connected; a
\* dropped connection leaves the client Failed, delivers one error event to
\* a subscribed listener and starts no new connection.
C35_ClientStateMachine ==
    [][/\ \A c \in Sessions :
             /\ Rank(client'[c]) >= Rank(client[c])
             /\ client[c] \in {"Terminated", "Failed"} => client'[c] = client[c]
       /\ lastOp'.op \in {"event", "drop"} => client[lastOp'.c] = "Connected"
       /\ lastOp'.op = "drop"
             => /\ client'[lastOp'.c] = "Failed"
                /\ lastOp'.c \in subscribed
                      => Cardinality({i \in 1..Len(out') :
                             out'[i] = Call("onStatusText", 0,
                                            StrTranscriptionError)}) = 1
                /\ \A c \in Sessions : ~Called(out', "connect", c)]_vars

C35_Witness ==
    /\ lastOp.op = "drop"
    /\ client[lastOp.c] = "Failed"
    /\ lastOp.c \in terminated
    /\ ~running

\* no start() call is suspended at an await
Settled == \A c \in Sessions : pc[c] \in {"none", "done"}

\* C36: once running is false and every pending completion has been
\* handled, with no further start() call, every capture the controller has
\* opened is stopped and every client it created is terminated.
C36_ReleasedOnceSettled ==
    (~running /\ Settled) => (OpenCaptures = {} /\ LiveClients = {})

\* the completions of the awaits of a start() call
Completions ==
    {"connectResolve", "connectReject", "getUserMediaResolve",
     "getUserMediaReject", "closeContextSettle", "addModuleResolve",
     "addModuleReject"}

\* C37: the completion of an await of a start() call that stop() and a
\* newer start() have superseded leaves the newer session as it is: running
\* stays true, the newer client stays held, subscribed and unterminated, the
\* capture handle held is not replaced and the status is not changed.
C37_StaleCompletionLeavesNewSession ==
    [][(/\ lastOp'.op \in Completions
        /\ lastOp'.c < nStarts
        /\ running
        /\ aai = nStarts)
          => /\ running'
             /\ UNCHANGED <<aai, unsubAai, mic, status>>
             /\ nStarts \in terminated' => nStarts \in terminated
             /\ nStarts \in subscribed => nStarts \in subscribed']_vars

\* the content of a document as one text, its lines joined by newlines
RECURSIVE Flat(_)
Flat(lines) ==
    IF Len(lines) = 1 THEN lines[1]
    ELSE lines[1] \o <<"\n">> \o Flat(Tail(lines))

\* the offset in that text of the position (line, ch)
RECURSIVE Offset(_, _)
Offset(lines, p) ==
    IF p.line = 0 THEN p.ch
    ELSE Len(lines[1]) + 1
             + Offset(Tail(lines), [line |-> p.line - 1, ch |-> p.ch])

\* C38: a final event changes the content of a document iff a document is
\* active and the trimmed text is not empty, and no other event changes a
\* document or its cursor; every insertion puts its text at the offset of
\* the cursor, leaves the text before and after it as it was, and leaves the
\* cursor at the end of what it inserted, so that the next insertion into
\* the same document, the cursor not being moved in between, begins where
\* this one ended: the segments are contiguous and in arrival order.
C38_InsertionsAreContiguous ==
    [][/\ FinalStep
            => ((\E d \in DOMAIN docs : docs'[d].lines # docs[d].lines)
                   <=> (activeDoc # 0 /\ Trim(lastOp'.ev.text) # <<>>))
       /\ (lastOp'.op = "event" /\ ~FinalStep) => docs' = docs
       /\ \A d \in DOMAIN docs :
              docs'[d].lines # docs[d].lines
                 => LET at == Offset(docs[d].lines, docs[d].cursor)
                        old == Flat(docs[d].lines)
                        new == Flat(docs'[d].lines)
                        n == Len(new) - Len(old)
                    IN /\ n > 0
                       /\ SubSeq(new, 1, at) = SubSeq(old, 1, at)
                       /\ SubSeq(new, at + 1, at + n)
                              = ExpectedInsertion(lastOp'.ev.text,
                                                  docs[d].cursor)
                       /\ SubSeq(new, at + n + 1, Len(new))
                              = SubSeq(old, at + 1, Len(old))
                       /\ Offset(docs'[d].lines, docs'[d].cursor) = at + n]_vars

C38_Witness ==
    /\ FinalHandled
    /\ activeDoc # 0
    /\ Len(log) = 3
    /\ log[1].ev = TranscriptUpdate(<<"a">>, TRUE)
    /\ log[2].ev = TranscriptUpdate(<<"a">>, FALSE)
    /\ log[3].ev = TranscriptUpdate(<<" ", "a", "\n", "b", " ">>, TRUE)
    /\ Flat(docs[activeDoc].lines) = <<"a", " ", " ", "a", "\n", "b", " ">>
    /\ Offset(docs[activeDoc].lines, docs[activeDoc].cursor) = 7

\* an exception escaped the capture step that made the calls o
Uncaught(o) == \E i \in 1..Len(o) : o[i].k = "uncaught"

\* the callback called in the capture step that made the calls o threw
CallbackThrew(o, k) == \E i \in 1..Len(o) : o[i].k = k /\ o[i].v.throws

\* C39: whatever the frame callback or the snapshot callback throws, no
\* exception escapes the capture's handlers; a dispatched frame is given to
\* the frame callback as long as the handler is installed, which a throw
\* does not change, and every run of tick requests the next animation
\* frame, so the loop goes on until stop() cancels it.
C39_CallbackErrorsAreContained ==
    [][/\ ~Uncaught(capOut')
       /\ (capOp' = "deliver" /\ onmessage)
             => /\ onmessage'
                /\ port' = Tail(port)
                /\ delivered' = Append(delivered, Head(port))
       /\ capOp' = "tick"
             => /\ rafId'
                /\ \E i \in 1..Len(capOut') :
                       capOut'[i].k = "requestAnimationFrame"]_vars

C39_Witness ==
    /\ capOp = "tick"
    /\ CallbackThrew(capOut, "onAudioFrame")
    /\ rafId
    /\ stops = <<>>
    /\ Len(delivered) >= 2

\* the update of call i is in the content: a call that returned data with
\* an updater other than the identity has recorded it in the meta and in
\* the content of its block
Reflected(content, call) ==
    (call.result = "data" /\ call.updater # 0)
        => /\ findVoiceSummaryBlockById(content, call.blockId) # 0
           /\ call.updater \in currentData(content, call.blockId).meta
           /\ call.updater \in currentData(content, call.blockId).content

\* C40: a call writes a content computed from the content the note holds
\* when it is written, and once the calls have all returned the note
\* reflects the update of each of them.
C40_OverlappingUpdatesBothApply ==
    [][/\ \A i \in UpdateCalls :
             (calls[i].pc = "modify" /\ calls'[i].pc = "done")
                 => calls[i].content = file
       /\ (\A i \in UpdateCalls : calls'[i].pc = "done")
             => \A i \in UpdateCalls : Reflected(file', calls'[i])]_vars

====
